---- MODULE Spec2Model ----
(***************************************************************************)
(* Reading-practice application: the relational store behind the handlers, *)
(* the updateUserProgress handler, the ProgressDashboard component with    *)
(* its loadProgressData fan-in, and the Achievements component.            *)
(*                                                                         *)
(* Numbers that JavaScript keeps as floating point (quiz scores, averages, *)
(* percentages) are exact rationals <<numerator, denominator>> in lowest   *)
(* terms; every score the model draws is exactly representable.            *)
(***************************************************************************)
EXTENDS Integers, Sequences, FiniteSets, TLC

VARIABLES
    usersTable,            \* rows of the users table
    contentTable,          \* rows of the content table
    userProgressTable,     \* rows of the user_progress table
    quizAttemptsTable,     \* rows of the quiz_attempts table
    readingSessionsTable,  \* rows of the reading_sessions table
    calls,                 \* updateUserProgress invocations in flight
    clock,                 \* server time, advanced by every handler call
    user,                  \* ProgressDashboard prop: the current user
    content,               \* ProgressDashboard prop: the content catalog
    userProgress,          \* ProgressDashboard prop: the user's progress rows
    quizAttempts,          \* ProgressDashboard state
    readingSessions,       \* ProgressDashboard state
    isLoading,             \* ProgressDashboard state
    load,                  \* position of loadProgressData and of its two fetches
    tab,                   \* active tab of the dashboard's <Tabs>
    dashView,              \* what ProgressDashboard last rendered
    achView,               \* what Achievements last rendered
    storiesView,           \* what the Stories tab last rendered
    response,              \* what the last query or mutation answered
    app,                   \* App state: users loaded, currentUser, userProgress, fetches
    reader,                \* ContentReader state and its completions in flight
    quiz                   \* QuizSection state and the attempts it has sent

vars == <<usersTable, contentTable, userProgressTable, quizAttemptsTable,
          readingSessionsTable, calls, clock, user, content, userProgress,
          quizAttempts, readingSessions, isLoading, load, tab, dashView, achView,
          storiesView, response, app, reader, quiz>>

serverVars == <<usersTable, contentTable, userProgressTable, quizAttemptsTable,
                readingSessionsTable, calls, clock>>

propVars == <<user, content, userProgress>>

\* the state outside the store and the dashboard
otherVars == <<response, app, reader, quiz>>

----------------------------------------------------------------------------
(* Bounds of the model *)

MaxCompleted == 10      \* completed progress rows drawn for the evaluator
MaxAttempts == 3        \* quiz attempts drawn for the evaluator
MaxSessions == 2        \* reading sessions drawn for the evaluator
MaxCatalog == 2         \* pieces of content drawn for the statistics
MaxStatsCompleted == 3  \* completed progress rows drawn for the statistics
MaxLookupRows == 2      \* progress rows drawn for the per-content lookup
MaxContentRows == 1     \* rows of the content table behind the dashboard
MaxProgressRows == 1    \* rows of the user_progress table behind the dashboard
MaxAttemptRows == 1     \* rows of the quiz_attempts table behind the dashboard
MaxSessionRows == 2     \* rows of the reading_sessions table behind the dashboard
MaxSlots == 2           \* updateUserProgress invocations that can be in flight together
MaxCalls == 3           \* updateUserProgress invocations in one behaviour
MaxCreates == 3         \* createQuizAttempt and createReadingSession calls in one behaviour
MaxUsers == 2           \* rows of the users table
MaxUserCalls == 3       \* createUser and updateUser calls in one behaviour
MaxReadRows == 2        \* rows of each table behind the per-user queries
MaxJourneyContent == 2  \* pieces of content behind the reading journey
MaxLoads == 2           \* loadData calls of App in flight
MaxFetches == 2         \* getUserProgress fetches of App in flight
MaxWords == 2           \* words of the text in the reading player
MaxRuns == 2            \* times the reading player is started

----------------------------------------------------------------------------
(* Generic helpers *)

\* an optional value: Undefined when absent, Some(v) when present
Undefined == <<>>

Some(v) == <<v>>

\* null of a nullable field or column; a value v that is present is Some(v)
Null == <<>>

BoundedSeq(S, n) == UNION {[1..k -> S] : k \in 0..n}

\* the raw metric without the Math.min clamp
MinUnclamped(a, b) == a

\* Math.min
Min(a, b) == IF a <= b THEN a ELSE b

\* Array.prototype.filter(...).length
CountWhere(s, P(_)) == Cardinality({i \in 1..Len(s) : P(s[i])})

\* Array.prototype.filter
RECURSIVE FilterSeq(_, _)
FilterSeq(s, keep) ==
    IF s = <<>> THEN <<>>
    ELSE IF Head(s) \in keep THEN <<Head(s)>> \o FilterSeq(Tail(s), keep)
         ELSE FilterSeq(Tail(s), keep)

\* Array.prototype.reduce((sum, x) => sum + x, 0) over a list of integers
RECURSIVE SumSeq(_)
SumSeq(s) == IF s = <<>> THEN 0 ELSE Head(s) + SumSeq(Tail(s))

RECURSIVE GCD(_, _)
GCD(a, b) == IF b = 0 THEN a ELSE GCD(b, a % b)

\* the rational n/d (d > 0, n >= 0) in lowest terms
Rat(n, d) == LET g == GCD(n, d) IN <<n \div g, d \div g>>

RatAdd(p, q) == Rat(p[1] * q[2] + q[1] * p[2], p[2] * q[2])

RatDivInt(p, k) == Rat(p[1], p[2] * k)

RatTimesInt(p, k) == Rat(p[1] * k, p[2])

\* a strict comparison where the code has >=
RatGEStrict(p, k) == p[1] > k * p[2]

\* p >= k for a rational p and an integer k
RatGE(p, k) == p[1] >= k * p[2]

RECURSIVE RatSum(_)
RatSum(s) == IF s = <<>> THEN Rat(0, 1) ELSE RatAdd(Head(s), RatSum(Tail(s)))

\* Array.prototype.sort(compare): stable since ES2019.  An element is placed
\* behind every element that does not compare greater than it, so equal
\* elements keep their order.
\* (sorted: indices already placed; x: the index to place; c: the table of
\* comparator results by index pair)
RECURSIVE InsertSorted(_, _, _)
InsertSorted(sorted, x, c) ==
    IF sorted = <<>> THEN <<x>>
    ELSE IF c[Head(sorted), x] <= 0
         THEN <<Head(sorted)>> \o InsertSorted(Tail(sorted), x, c)
         ELSE <<x>> \o sorted

RECURSIVE SortPrefix(_, _)
SortPrefix(n, c) ==
    IF n = 0 THEN <<>> ELSE InsertSorted(SortPrefix(n - 1, c), n, c)

StableSort(s, Cmp(_, _)) ==
    LET order == SortPrefix(Len(s), [i \in 1..Len(s), j \in 1..Len(s) |-> Cmp(s[i], s[j])])
    IN [k \in 1..Len(s) |-> s[order[k]]]

\* ORDER BY key DESC: every arrangement of the rows with non-increasing keys
\* (the order among equal keys is not fixed by SQL)
OrderByDesc(rows, Key(_)) ==
    LET n == Len(rows)
        perms == {p \in [1..n -> 1..n] : \A i, j \in 1..n : i # j => p[i] # p[j]}
    IN {[k \in 1..n |-> rows[p[k]]] : p \in
            {q \in perms : \A k \in 1..n : k < n => Key(rows[q[k]]) >= Key(rows[q[k + 1]])}}

----------------------------------------------------------------------------
(* Achievements component (client/src/components/Achievements.tsx) *)

completedStories(up) == CountWhere(up, LAMBDA p : p.status = "completed")

totalWordsRead(rs) == SumSeq([i \in 1..Len(rs) |-> rs[i].words_read])

\* the reduce over the wrong field
totalReadingTimeOfWords(rs) == SumSeq([i \in 1..Len(rs) |-> rs[i].words_read])

totalReadingTime(rs) == SumSeq([i \in 1..Len(rs) |-> rs[i].session_duration_seconds])

\* the best attempt instead of the mean of all attempts
averageQuizScoreBestAttempt(qa) ==
    IF Len(qa) > 0
    THEN LET best == CHOOSE i \in 1..Len(qa) :
                        \A j \in 1..Len(qa) :
                            qa[i].score[1] * qa[j].score[2] >= qa[j].score[1] * qa[i].score[2]
         IN qa[best].score
    ELSE Rat(0, 1)

averageQuizScore(qa) ==
    IF Len(qa) > 0
    THEN RatDivInt(RatSum([i \in 1..Len(qa) |-> qa[i].score]), Len(qa))
    ELSE Rat(0, 1)

\* a rounded comparison, Math.round(score) === 100, where the code has score === 100
perfectQuizzesRounded(qa) == CountWhere(qa, LAMBDA a : 2 * a.score[1] >= 199 * a.score[2])

perfectQuizzes(qa) == CountWhere(qa, LAMBDA a : a.score = Rat(100, 1))

\* one entry of the achievements array literal
Achievement(id, unlocked, progress, maxProgress, category) ==
    [id |-> id, unlocked |-> unlocked, progress |-> progress,
     maxProgress |-> maxProgress, category |-> category]

achievements(up, qa, rs) ==
    LET C == completedStories(up)
        W == totalWordsRead(rs)
        T == totalReadingTime(rs)
        avg == averageQuizScore(qa)
        perfect == perfectQuizzes(qa)
    IN << Achievement("first_story", C >= 1, Undefined, Undefined, "reading"),
          Achievement("story_master", C >= 5, Some(Min(C, 5)), Some(5), "reading"),
          Achievement("reading_champion", C >= 10, Some(Min(C, 10)), Some(10), "reading"),
          Achievement("word_explorer", W >= 100, Some(Min(W, 100)), Some(100), "reading"),
          Achievement("word_collector", W >= 500, Some(Min(W, 500)), Some(500), "reading"),
          Achievement("word_master", W >= 1000, Some(Min(W, 1000)), Some(1000), "reading"),
          Achievement("quick_reader", T >= 1800, Some(Min(T, 1800)), Some(1800), "reading"),
          Achievement("dedicated_reader", T >= 7200, Some(Min(T, 7200)), Some(7200), "reading"),
          Achievement("quiz_rookie", Len(qa) >= 1, Undefined, Undefined, "quiz"),
          Achievement("quiz_expert", RatGE(avg, 80), Undefined, Undefined, "quiz"),
          Achievement("perfect_score", perfect >= 1, Undefined, Undefined, "quiz"),
          Achievement("quiz_master", perfect >= 3, Some(Min(perfect, 3)), Some(3), "quiz"),
          Achievement("getting_started", Len(rs) >= 1, Undefined, Undefined, "progress"),
          Achievement("level_up_ready", C >= 8 /\ RatGE(avg, 75),
                      Undefined, Undefined, "progress") >>

\* the letters of a category name, a = 1 .. z = 26
CategoryLetters(category) ==
    CASE category = "reading"  -> <<18, 5, 1, 4, 9, 14, 7>>
      [] category = "progress" -> <<16, 18, 15, 7, 18, 5, 19, 19>>
      [] category = "quiz"     -> <<17, 21, 9, 26>>
      [] category = "streak"   -> <<19, 20, 18, 5, 1, 11>>

\* String.prototype.localeCompare on lower-case ASCII words: the sign of the
\* first differing letter, a proper prefix ordering first
RECURSIVE CompareLetters(_, _)
CompareLetters(x, y) ==
    IF x = <<>> /\ y = <<>> THEN 0
    ELSE IF x = <<>> THEN -1
    ELSE IF y = <<>> THEN 1
    ELSE IF Head(x) < Head(y) THEN -1
    ELSE IF Head(x) > Head(y) THEN 1
    ELSE CompareLetters(Tail(x), Tail(y))

\* the operands of localeCompare swapped
localeCompareSwapped(a, b) == CompareLetters(CategoryLetters(b), CategoryLetters(a))

localeCompare(a, b) == CompareLetters(CategoryLetters(a), CategoryLetters(b))

\* the comparator handed to achievements.sort
compareAchievements(a, b) ==
    IF a.unlocked # b.unlocked
    THEN (IF a.unlocked THEN -1 ELSE 1)
    ELSE localeCompare(a.category, b.category)

sortedAchievements(up, qa, rs) == StableSort(achievements(up, qa, rs), compareAchievements)

\* achievements.sort sorts the array in place, so unlockedCount and
\* totalAchievements are taken from the sorted array
unlockedCount(up, qa, rs) ==
    CountWhere(sortedAchievements(up, qa, rs), LAMBDA a : a.unlocked)

totalAchievements(up, qa, rs) == Len(sortedAchievements(up, qa, rs))

\* the ratio taken over the achievements that are started (unlocked, or
\* with a progress bar) instead of over the whole catalog
AchievementsOverStarted(up, qa, rs) ==
    LET sorted == sortedAchievements(up, qa, rs)
        unlocked == CountWhere(sorted, LAMBDA a : a.unlocked)
        started == CountWhere(sorted, LAMBDA a : a.unlocked \/ a.progress # Undefined)
    IN [completedStories |-> completedStories(up),
        totalWordsRead |-> totalWordsRead(rs),
        totalReadingTime |-> totalReadingTime(rs),
        averageQuizScore |-> averageQuizScore(qa),
        perfectQuizzes |-> perfectQuizzes(qa),
        sortedAchievements |-> sorted,
        unlockedCount |-> unlocked,
        totalAchievements |-> started,
        overallProgress |-> RatTimesInt(Rat(unlocked, started), 100)]

\* everything one evaluation of the component produces; overallProgress is
\* (unlockedCount / totalAchievements) * 100 of the "Overall Progress" bar
Achievements(up, qa, rs) ==
    LET sorted == sortedAchievements(up, qa, rs)
        unlocked == CountWhere(sorted, LAMBDA a : a.unlocked)
    IN [completedStories |-> completedStories(up),
        totalWordsRead |-> totalWordsRead(rs),
        totalReadingTime |-> totalReadingTime(rs),
        averageQuizScore |-> averageQuizScore(qa),
        perfectQuizzes |-> perfectQuizzes(qa),
        sortedAchievements |-> sorted,
        unlockedCount |-> unlocked,
        totalAchievements |-> Len(sorted),
        overallProgress |-> RatTimesInt(Rat(unlocked, Len(sorted)), 100)]

----------------------------------------------------------------------------
(* Read handlers of the server *)

DifficultyRank(d) ==
    CASE d = "beginner" -> 1 [] d = "intermediate" -> 2 [] d = "advanced" -> 3

\* rows of a table that satisfy a predicate, in table order
SelectWhere(table, P(_)) == FilterSeq(table, {r \in {table[i] : i \in 1..Len(table)} : P(r)})

\* getAllContent: ORDER BY difficulty ASC, order_index ASC
getAllContent(table) ==
    OrderByDesc(table, LAMBDA c : 0 - (DifficultyRank(c.difficulty) * 1000 + c.order_index))

\* the query without its condition on user_id
getUserProgressOfAnyUser(table, input) ==
    SelectWhere(table, LAMBDA p :
        input.content_id # Undefined => p.content_id = input.content_id[1])

\* getUserProgress: WHERE user_id = ? [AND content_id = ?]
getUserProgress(table, input) ==
    SelectWhere(table, LAMBDA p :
        /\ p.user_id = input.user_id
        /\ (input.content_id # Undefined => p.content_id = input.content_id[1]))

\* getQuizAttempts: WHERE user_id = ? ORDER BY completed_at DESC
getQuizAttempts(table, userId) ==
    OrderByDesc(SelectWhere(table, LAMBDA a : a.user_id = userId),
                LAMBDA a : a.completed_at)

\* session.reading_accuracy ? parseFloat(session.reading_accuracy.toString()) : null
\* on the number or null of the real column: 0 is falsy
convertReadingAccuracy(stored) ==
    IF stored # Null /\ stored[1] # 0 THEN stored ELSE Null

\* the rows by insertion instead of by started_at
getReadingSessionsInsertionOrder(table, userId) ==
    {[i \in 1..Len(SelectWhere(table, LAMBDA r : r.user_id = userId)) |->
         [SelectWhere(table, LAMBDA r : r.user_id = userId)[i] EXCEPT
             !.reading_accuracy = convertReadingAccuracy(@)]]}

\* getReadingSessions: WHERE user_id = ? ORDER BY started_at DESC, then the
\* conversion of reading_accuracy on every row
getReadingSessions(table, userId) ==
    {[i \in 1..Len(s) |->
         [s[i] EXCEPT !.reading_accuracy = convertReadingAccuracy(@)]] :
       s \in OrderByDesc(SelectWhere(table, LAMBDA r : r.user_id = userId),
                         LAMBDA r : r.started_at)}

----------------------------------------------------------------------------
(* ProgressDashboard component *)

Tabs == {"stories", "quizzes", "sessions", "achievements"}

\* the count joined with the catalog: rows of content that is gone are dropped
completedContentInCatalog(up) ==
    CountWhere(up, LAMBDA p :
        /\ p.status = "completed"
        /\ \E k \in 1..Len(content) : content[k].id = p.content_id)

completedContent(up) == CountWhere(up, LAMBDA p : p.status = "completed")

\* every piece of content counted, whatever its difficulty
totalContentAnyLevel(c, u) == Len(c)

totalContent(c, u) == CountWhere(c, LAMBDA x : x.difficulty = u.level)

overallProgress(up, c, u) ==
    IF totalContent(c, u) > 0
    THEN RatTimesInt(Rat(completedContent(up), totalContent(c, u)), 100)
    ELSE Rat(0, 1)

\* the line under the progress bar: congratulations (null here) when
\* completedContent === totalContent, else the number of stories to go
storiesToGo(up, c, u) ==
    IF completedContent(up) = totalContent(c, u)
    THEN Null
    ELSE Some(totalContent(c, u) - completedContent(up))

dashTotalWordsRead(rs) == SumSeq([i \in 1..Len(rs) |-> rs[i].words_read])

dashTotalReadingTime(rs) == SumSeq([i \in 1..Len(rs) |-> rs[i].session_duration_seconds])

\* the division without its guard: 0/0, NaN, for an empty list
dashAverageQuizScoreUnguarded(qa) ==
    IF Len(qa) > 0
    THEN RatDivInt(RatSum([i \in 1..Len(qa) |-> qa[i].score]), Len(qa))
    ELSE <<0, 0>>

dashAverageQuizScore(qa) ==
    IF Len(qa) > 0
    THEN RatDivInt(RatSum([i \in 1..Len(qa) |-> qa[i].score]), Len(qa))
    ELSE Rat(0, 1)

\* the comparator with its operands swapped: oldest first
compareSessionsAscending(a, b) == a.started_at - b.started_at

\* comparator of the Sessions tab: b.started_at.getTime() - a.started_at.getTime()
compareSessions(a, b) == b.started_at - a.started_at

\* readingSessions.sort(...) of the Sessions tab; it sorts the state array itself
sessionsTabSort(rs) == StableSort(rs, compareSessions)

\* Math.round of a non-negative rational: floor(x + 1/2)
MathRound(p) == (2 * p[1] + p[2]) \div (2 * p[2])

\* the "Quiz Average" card: {averageQuizScore > 0 ? `${Math.round(..)}%` : 'N/A'}
quizAverageCard(avg) ==
    IF avg[1] > 0 THEN <<"percent", MathRound(avg)>> ELSE <<"N/A", 0>>

\* Array.prototype.find: the index of the first progress row of a content id,
\* 0 when there is none
findProgress(up, contentId) ==
    IF \E i \in 1..Len(up) : up[i].content_id = contentId
    THEN CHOOSE i \in 1..Len(up) :
            /\ up[i].content_id = contentId
            /\ \A j \in 1..(i - 1) : up[j].content_id # contentId
    ELSE 0

\* the last matching row instead of the first
getContentProgressLastMatch(up, contentId) ==
    IF \E i \in 1..Len(up) : up[i].content_id = contentId
    THEN up[CHOOSE i \in 1..Len(up) :
                /\ up[i].content_id = contentId
                /\ \A j \in (i + 1)..Len(up) : up[j].content_id # contentId
           ].completion_percentage
    ELSE 0

\* progress ? progress.completion_percentage : 0
getContentProgress(up, contentId) ==
    IF findProgress(up, contentId) # 0
    THEN up[findProgress(up, contentId)].completion_percentage
    ELSE 0

\* comparator of the Stories tab: a.order_index - b.order_index
compareOrderIndex(a, b) == a.order_index - b.order_index

\* the Stories tab: the content of the user's level by order_index, each
\* piece with its progress and the status badge of its progress row
storiesTab(u, c, up) ==
    LET atLevel == SelectWhere(c, LAMBDA x : x.difficulty = u.level)
        shown == StableSort(atLevel, compareOrderIndex)
    IN [kind |-> "stories",
        items |-> [k \in 1..Len(shown) |->
            [id |-> shown[k].id,
             progress |-> getContentProgress(up, shown[k].id),
             status |-> IF findProgress(up, shown[k].id) # 0
                        THEN Some(up[findProgress(up, shown[k].id)].status)
                        ELSE Undefined]]]

\* what the component returns: the loading card, or the statistics
ProgressDashboard(u, c, up, qa, rs, loading) ==
    IF loading
    THEN [kind |-> "loading"]
    ELSE [kind |-> "stats",
          completedContent |-> completedContent(up),
          totalContent |-> totalContent(c, u),
          overallProgress |-> overallProgress(up, c, u),
          storiesToGo |-> storiesToGo(up, c, u),
          totalWordsRead |-> dashTotalWordsRead(rs),
          totalReadingTime |-> dashTotalReadingTime(rs),
          averageQuizScore |-> dashAverageQuizScore(qa),
          quizAverageCard |-> quizAverageCard(dashAverageQuizScore(qa))]

NotRendered == [kind |-> "none"]

\* One render of the dashboard with state (loading, qa, rs) and active tab t.
\* Only the active tab's content is mounted: the Stories tab looks up the
\* progress of each piece, the Sessions tab sorts readingSessions in place,
\* the Achievements tab evaluates Achievements.
Render(loading, qa, rs, t) ==
    /\ dashView' = ProgressDashboard(user, content, userProgress, qa, rs, loading)
    /\ readingSessions' =
          IF ~loading /\ t = "sessions" /\ Len(rs) # 0 THEN sessionsTabSort(rs) ELSE rs
    /\ achView' =
          IF ~loading /\ t = "achievements"
          THEN [kind |-> "achievements"] @@ Achievements(userProgress, qa, rs)
          ELSE NotRendered
    /\ storiesView' =
          IF ~loading /\ t = "stories"
          THEN storiesTab(user, content, userProgress)
          ELSE NotRendered

\* useEffect(() => { loadProgressData() }): setIsLoading(true), both queries sent
loadProgressData ==
    /\ load.pc = "idle"
    /\ load' = [load EXCEPT !.pc = "awaiting", !.attempts = "pending", !.sessions = "pending"]
    /\ isLoading' = TRUE
    /\ Render(TRUE, quizAttempts, readingSessions, tab)
    /\ UNCHANGED <<serverVars, otherVars, propVars, quizAttempts, tab>>

\* trpc.getQuizAttempts.query resolves with what the server reads at that time
getQuizAttemptsResolves ==
    /\ load.attempts = "pending"
    /\ \E result \in getQuizAttempts(quizAttemptsTable, user.id) :
          load' = [load EXCEPT !.attempts = "ok", !.attemptsData = result]
    /\ UNCHANGED <<serverVars, otherVars, propVars, quizAttempts, readingSessions, isLoading,
                   tab, dashView, achView, storiesView>>

getQuizAttemptsRejects ==
    /\ load.attempts = "pending"
    /\ load' = [load EXCEPT !.attempts = "err"]
    /\ UNCHANGED <<serverVars, otherVars, propVars, quizAttempts, readingSessions, isLoading,
                   tab, dashView, achView, storiesView>>

getReadingSessionsResolves ==
    /\ load.sessions = "pending"
    /\ \E result \in getReadingSessions(readingSessionsTable, user.id) :
          load' = [load EXCEPT !.sessions = "ok", !.sessionsData = result]
    /\ UNCHANGED <<serverVars, otherVars, propVars, quizAttempts, readingSessions, isLoading,
                   tab, dashView, achView, storiesView>>

getReadingSessionsRejects ==
    /\ load.sessions = "pending"
    /\ load' = [load EXCEPT !.sessions = "err"]
    /\ UNCHANGED <<serverVars, otherVars, propVars, quizAttempts, readingSessions, isLoading,
                   tab, dashView, achView, storiesView>>

\* setIsLoading(false) issued together with the first list
setQuizAttemptsEndsLoading ==
    /\ load.pc = "awaiting"
    /\ load.attempts = "ok" /\ load.sessions = "ok"
    /\ quizAttempts' = load.attemptsData
    /\ load' = [load EXCEPT !.pc = "setReadingSessions"]
    /\ isLoading' = FALSE
    /\ Render(FALSE, load.attemptsData, readingSessions, tab)
    /\ UNCHANGED <<serverVars, otherVars, propVars, tab>>

\* Promise.all fulfilled: setQuizAttempts(attempts)
setQuizAttempts ==
    /\ load.pc = "awaiting"
    /\ load.attempts = "ok" /\ load.sessions = "ok"
    /\ quizAttempts' = load.attemptsData
    /\ load' = [load EXCEPT !.pc = "setReadingSessions"]
    /\ Render(isLoading, load.attemptsData, readingSessions, tab)
    /\ UNCHANGED <<serverVars, otherVars, propVars, isLoading, tab>>

\* setReadingSessions(sessions)
setReadingSessions ==
    /\ load.pc = "setReadingSessions"
    /\ load' = [load EXCEPT !.pc = "finally"]
    /\ Render(isLoading, quizAttempts, load.sessionsData, tab)
    /\ UNCHANGED <<serverVars, otherVars, propVars, quizAttempts, isLoading, tab>>

\* Promise.all rejected as soon as one query fails: catch, console.error
catchLoadError ==
    /\ load.pc = "awaiting"
    /\ load.attempts = "err" \/ load.sessions = "err"
    /\ load' = [load EXCEPT !.pc = "finally"]
    /\ UNCHANGED <<serverVars, otherVars, propVars, quizAttempts, readingSessions, isLoading,
                   tab, dashView, achView, storiesView>>

\* finally: setIsLoading(false)
finallyLoaded ==
    /\ load.pc = "finally"
    /\ load' = [load EXCEPT !.pc = "done"]
    /\ isLoading' = FALSE
    /\ Render(FALSE, quizAttempts, readingSessions, tab)
    /\ UNCHANGED <<serverVars, otherVars, propVars, quizAttempts, tab>>

\* the reader picks a tab of the dashboard
selectTab(t) ==
    /\ t # tab
    /\ tab' = t
    /\ Render(isLoading, quizAttempts, readingSessions, t)
    /\ UNCHANGED <<serverVars, otherVars, propVars, quizAttempts, isLoading, load>>

\* the component is rendered again with the same props and state
rerender ==
    /\ Render(isLoading, quizAttempts, readingSessions, tab)
    /\ UNCHANGED <<serverVars, otherVars, propVars, quizAttempts, isLoading, load, tab>>

----------------------------------------------------------------------------
(* updateUserProgress handler (server/src/handlers/update_user_progress.ts). *)
(* Every awaited statement is one step; other invocations may run between.   *)

Slots == 1..MaxSlots

NoInput == [user_id |-> 0, content_id |-> 0, status |-> Undefined,
            completion_percentage |-> Undefined, time_spent_seconds |-> Undefined]

IdleCall == [pc |-> "idle", input |-> NoInput, existingProgress |-> 0, outcome |-> "none"]

\* updateProgressInputSchema: status, completion_percentage and
\* time_spent_seconds are optional.  User 1 and content 1 are stored, user 2
\* and content 2 are not.
UpdateProgressInputs ==
    [user_id : {1}, content_id : {1},
     status : {Undefined, Some("completed")},
     completion_percentage : {Undefined, Some(50)},
     time_spent_seconds : {Undefined, Some(30)}]
    \cup [user_id : {1, 2}, content_id : {1, 2},
          status : {Undefined}, completion_percentage : {Some(50)},
          time_spent_seconds : {Undefined}]

\* input.field || d of JavaScript: d when the field is absent or falsy
OrDefaultNumber(v, d) == IF v = Undefined THEN d ELSE IF v[1] = 0 THEN d ELSE v[1]

OrDefaultString(v, d) == IF v = Undefined THEN d ELSE IF v[1] = "" THEN d ELSE v[1]

MatchesPair(p, input) == p.user_id = input.user_id /\ p.content_id = input.content_id

\* the invocation starts and "Verify user exists" runs
selectUser(slot, input) ==
    /\ calls[slot].pc = "idle"
    /\ clock < MaxCalls
    /\ clock' = clock + 1
    /\ calls' = [calls EXCEPT ![slot] =
          IF Len(SelectWhere(usersTable, LAMBDA u : u.id = input.user_id)) = 0
          THEN [IdleCall EXCEPT !.outcome = "User does not exist"]
          ELSE [pc |-> "selectContent", input |-> input, existingProgress |-> 0,
                outcome |-> "none"]]
    /\ UNCHANGED <<usersTable, contentTable, userProgressTable, quizAttemptsTable,
                   readingSessionsTable>>

\* the statement without its length check: the call goes on for any content id
selectContentUnchecked(slot) ==
    /\ calls[slot].pc = "selectContent"
    /\ calls' = [calls EXCEPT ![slot] = [@ EXCEPT !.pc = "selectExisting"]]
    /\ UNCHANGED <<usersTable, contentTable, userProgressTable, quizAttemptsTable,
                   readingSessionsTable, clock>>

\* "Verify content exists"
selectContent(slot) ==
    /\ calls[slot].pc = "selectContent"
    /\ calls' = [calls EXCEPT ![slot] =
          IF Len(SelectWhere(contentTable, LAMBDA c : c.id = calls[slot].input.content_id)) = 0
          THEN [IdleCall EXCEPT !.outcome = "Content does not exist"]
          ELSE [@ EXCEPT !.pc = "selectExisting"]]
    /\ UNCHANGED <<usersTable, contentTable, userProgressTable, quizAttemptsTable,
                   readingSessionsTable, clock>>

\* "Check if progress record already exists"
selectExistingProgress(slot) ==
    /\ calls[slot].pc = "selectExisting"
    /\ calls' = [calls EXCEPT ![slot] =
          [@ EXCEPT !.pc = "write",
                    !.existingProgress =
                        Len(SelectWhere(userProgressTable,
                                        LAMBDA p : MatchesPair(p, calls[slot].input)))]]
    /\ UNCHANGED <<usersTable, contentTable, userProgressTable, quizAttemptsTable,
                   readingSessionsTable, clock>>

\* updateData built with the defaults of the insert branch: an omitted field
\* is reset
updateExistingWithDefaults(table, input, now) ==
    [i \in 1..Len(table) |->
        IF MatchesPair(table[i], input)
        THEN [table[i] EXCEPT
                !.last_accessed = now,
                !.status = OrDefaultString(input.status, "not_started"),
                !.completion_percentage = OrDefaultNumber(input.completion_percentage, 0),
                !.time_spent_seconds = OrDefaultNumber(input.time_spent_seconds, 0)]
        ELSE table[i]]

\* db.update(...).set(updateData).where(user_id and content_id)
updateExisting(table, input, now) ==
    [i \in 1..Len(table) |->
        IF MatchesPair(table[i], input)
        THEN [table[i] EXCEPT
                !.last_accessed = now,
                !.status = IF input.status # Undefined THEN input.status[1] ELSE @,
                !.completion_percentage =
                    IF input.completion_percentage # Undefined
                    THEN input.completion_percentage[1] ELSE @,
                !.time_spent_seconds =
                    IF input.time_spent_seconds # Undefined
                    THEN input.time_spent_seconds[1] ELSE @]
        ELSE table[i]]

\* db.insert(userProgressTable).values({...}); the id is the next serial
insertProgress(table, input, now) ==
    Append(table,
           [id |-> Len(table) + 1,
            user_id |-> input.user_id,
            content_id |-> input.content_id,
            status |-> OrDefaultString(input.status, "not_started"),
            completion_percentage |-> OrDefaultNumber(input.completion_percentage, 0),
            time_spent_seconds |-> OrDefaultNumber(input.time_spent_seconds, 0),
            last_accessed |-> now,
            created_at |-> now])

\* the update or the insert, chosen by what selectExistingProgress saw
writeProgress(slot) ==
    /\ calls[slot].pc = "write"
    /\ userProgressTable' =
          IF calls[slot].existingProgress > 0
          THEN updateExisting(userProgressTable, calls[slot].input, clock)
          ELSE insertProgress(userProgressTable, calls[slot].input, clock)
    /\ calls' = [calls EXCEPT ![slot] = [IdleCall EXCEPT !.outcome = "ok"]]
    /\ UNCHANGED <<usersTable, contentTable, quizAttemptsTable, readingSessionsTable, clock>>

clientVars == <<user, content, userProgress, quizAttempts, readingSessions, isLoading,
                load, tab, dashView, achView, storiesView>>

----------------------------------------------------------------------------
(* createQuizAttempt and createReadingSession behind the router's input      *)
(* validation (server/src/index.ts, server/src/schema.ts).  Each handler is  *)
(* one insert statement.                                                      *)

\* p <= k for a rational p and an integer k
RatLE(p, k) == p[1] <= k * p[2]

\* createQuizAttemptInputSchema: score is z.number().min(0).max(100), the
\* other fields are numbers without a range
createQuizAttemptInputSchema(raw) == RatGE(raw.score, 0) /\ RatLE(raw.score, 100)

\* createReadingSessionInputSchema accepts: reading_accuracy absent, null or
\* in 0..100; words_read and session_duration_seconds are z.number().int()
createReadingSessionInputSchema(raw) ==
    \/ raw.reading_accuracy = Undefined
    \/ raw.reading_accuracy = Some(Null)
    \/ /\ raw.reading_accuracy # Undefined
       /\ raw.reading_accuracy # Some(Null)
       /\ raw.reading_accuracy[1][1] >= 0
       /\ raw.reading_accuracy[1][1] <= 100

\* the parsed input: words_read has .default(0)
parseReadingSessionInput(raw) ==
    [raw EXCEPT !.words_read = IF @ = Undefined THEN 0 ELSE @[1]]

\* an attempt of the same user and quiz is replaced instead of kept
createQuizAttemptKeepsLatest(input) ==
    /\ clock < MaxCreates
    /\ clock' = clock + 1
    /\ quizAttemptsTable' =
          Append(SelectWhere(quizAttemptsTable, LAMBDA a :
                     ~(a.user_id = input.user_id /\ a.quiz_id = input.quiz_id)),
                 [id |-> Len(quizAttemptsTable) + 1,
                  user_id |-> input.user_id,
                  quiz_id |-> input.quiz_id,
                  score |-> input.score,
                  total_questions |-> input.total_questions,
                  correct_answers |-> input.correct_answers,
                  time_taken_seconds |-> input.time_taken_seconds,
                  completed_at |-> clock + 1])
    /\ UNCHANGED <<usersTable, contentTable, userProgressTable, readingSessionsTable, calls>>

\* db.insert(quizAttemptsTable).values({...}): id is the next serial,
\* completed_at the column's defaultNow()
createQuizAttempt(input) ==
    /\ clock < MaxCreates
    /\ clock' = clock + 1
    /\ quizAttemptsTable' =
          Append(quizAttemptsTable,
                 [id |-> Len(quizAttemptsTable) + 1,
                  user_id |-> input.user_id,
                  quiz_id |-> input.quiz_id,
                  score |-> input.score,
                  total_questions |-> input.total_questions,
                  correct_answers |-> input.correct_answers,
                  time_taken_seconds |-> input.time_taken_seconds,
                  completed_at |-> clock + 1])
    /\ UNCHANGED <<usersTable, contentTable, userProgressTable, readingSessionsTable, calls>>

\* db.insert(readingSessionsTable).values({...}): started_at is new Date(),
\* ended_at null, reading_accuracy null when the input has none
createReadingSession(input) ==
    /\ clock < MaxCreates
    /\ clock' = clock + 1
    /\ readingSessionsTable' =
          Append(readingSessionsTable,
                 [id |-> Len(readingSessionsTable) + 1,
                  user_id |-> input.user_id,
                  content_id |-> input.content_id,
                  words_read |-> input.words_read,
                  reading_accuracy |->
                      IF input.reading_accuracy # Undefined
                      THEN input.reading_accuracy[1] ELSE Null,
                  session_duration_seconds |-> input.session_duration_seconds,
                  started_at |-> clock + 1,
                  ended_at |-> Null])
    /\ UNCHANGED <<usersTable, contentTable, userProgressTable, quizAttemptsTable, calls>>

\* appRouter.createQuizAttempt: the handler runs on an input the schema accepts
createQuizAttemptProcedure(raw) ==
    /\ createQuizAttemptInputSchema(raw)
    /\ createQuizAttempt(raw)

\* appRouter.createReadingSession
createReadingSessionProcedure(raw) ==
    /\ createReadingSessionInputSchema(raw)
    /\ createReadingSession(parseReadingSessionInput(raw))

----------------------------------------------------------------------------
(* createUser and updateUser behind the router's input validation *)

Levels == {"beginner", "intermediate", "advanced"}

\* createUserInputSchema: name min(1), age an integer in 6..12, level of the
\* enum or absent
createUserInputSchema(raw) ==
    /\ raw.name # ""
    /\ raw.age >= 6 /\ raw.age <= 12
    /\ raw.level # Undefined => raw.level[1] \in Levels

\* the parsed input: level has .default('beginner')
parseCreateUserInput(raw) ==
    [raw EXCEPT !.level = IF @ = Undefined THEN "beginner" ELSE @[1]]

\* the schema without the range of age
updateUserInputSchemaAnyAge(raw) ==
    /\ raw.name # Undefined => raw.name[1] # ""
    /\ raw.level # Undefined => raw.level[1] \in Levels

\* updateUserInputSchema: every field but id is optional, with the ranges
\* of createUserInputSchema
updateUserInputSchema(raw) ==
    /\ raw.name # Undefined => raw.name[1] # ""
    /\ raw.age # Undefined => (raw.age[1] >= 6 /\ raw.age[1] <= 12)
    /\ raw.level # Undefined => raw.level[1] \in Levels

\* createUser: the user is saved with the next serial id
createUser(input) ==
    /\ clock < MaxUserCalls
    /\ Len(usersTable) < MaxUsers
    /\ clock' = clock + 1
    /\ usersTable' =
          Append(usersTable,
                 [id |-> Len(usersTable) + 1,
                  name |-> input.name,
                  age |-> input.age,
                  level |-> input.level,
                  created_at |-> clock + 1,
                  updated_at |-> clock + 1])
    /\ UNCHANGED <<contentTable, userProgressTable, quizAttemptsTable,
                   readingSessionsTable, calls>>

\* the row of a user after db.update(usersTable).set(updateData)
updatedUser(row, input, now) ==
    [row EXCEPT
        !.updated_at = now,
        !.name = IF input.name # Undefined THEN input.name[1] ELSE @,
        !.age = IF input.age # Undefined THEN input.age[1] ELSE @,
        !.level = IF input.level # Undefined THEN input.level[1] ELSE @]

\* updateData without updated_at: new Date()
updateUserKeepsUpdatedAt(input) ==
    /\ clock < MaxUserCalls
    /\ clock' = clock + 1
    /\ usersTable' =
          [i \in 1..Len(usersTable) |->
              IF usersTable[i].id = input.id
              THEN updatedUser(usersTable[i], input, usersTable[i].updated_at)
              ELSE usersTable[i]]
    /\ response' =
          IF Len(SelectWhere(usersTable, LAMBDA u : u.id = input.id)) = 0
          THEN [procedure |-> "updateUser", input |-> input, rows |-> <<>>,
                error |-> <<"User with id ", input.id, " not found">>]
          ELSE [procedure |-> "updateUser", input |-> input,
                rows |-> SelectWhere(usersTable', LAMBDA u : u.id = input.id),
                error |-> <<>>]
    /\ UNCHANGED <<contentTable, userProgressTable, quizAttemptsTable,
                   readingSessionsTable, calls>>

\* updateUser: db.update(usersTable).set(updateData).where(id).returning();
\* without a row of that id nothing is stored and the call throws
\* 'User with id N not found', otherwise it answers the updated row
updateUser(input) ==
    /\ clock < MaxUserCalls
    /\ clock' = clock + 1
    /\ usersTable' =
          [i \in 1..Len(usersTable) |->
              IF usersTable[i].id = input.id
              THEN updatedUser(usersTable[i], input, clock + 1)
              ELSE usersTable[i]]
    /\ response' =
          IF Len(SelectWhere(usersTable, LAMBDA u : u.id = input.id)) = 0
          THEN [procedure |-> "updateUser", input |-> input, rows |-> <<>>,
                error |-> <<"User with id ", input.id, " not found">>]
          ELSE [procedure |-> "updateUser", input |-> input,
                rows |-> SelectWhere(usersTable', LAMBDA u : u.id = input.id),
                error |-> <<>>]
    /\ UNCHANGED <<contentTable, userProgressTable, quizAttemptsTable,
                   readingSessionsTable, calls>>

\* appRouter.createUser
createUserProcedure(raw) ==
    /\ createUserInputSchema(raw)
    /\ createUser(parseCreateUserInput(raw))

\* appRouter.updateUser
updateUserProcedure(raw) ==
    /\ updateUserInputSchema(raw)
    /\ updateUser(raw)

----------------------------------------------------------------------------
(* The per-user queries of the router (server/src/index.ts): each answers   *)
(* with what its handler reads from the store at that time.                  *)

Answer(procedure, input, rows) ==
    [procedure |-> procedure, input |-> input, rows |-> rows, error |-> <<>>]

\* appRouter.getUserProgress
getUserProgressProcedure(input) ==
    /\ response' = Answer("getUserProgress", input,
                          getUserProgress(userProgressTable, input))
    /\ UNCHANGED serverVars

\* appRouter.getQuizAttempts
getQuizAttemptsProcedure(userId) ==
    /\ \E rows \in getQuizAttempts(quizAttemptsTable, userId) :
          response' = Answer("getQuizAttempts", userId, rows)
    /\ UNCHANGED serverVars

\* appRouter.getReadingSessions
getReadingSessionsProcedure(userId) ==
    /\ \E rows \in getReadingSessions(readingSessionsTable, userId) :
          response' = Answer("getReadingSessions", userId, rows)
    /\ UNCHANGED serverVars

----------------------------------------------------------------------------
(* Initial states *)

\* difficulties and levels the model draws
DrawnLevels == {"beginner", "intermediate"}

\* the scores the evaluator is given: 75, 80, 99.99 and 100
Scores == {Rat(75, 1), Rat(80, 1), Rat(9999, 100), Rat(100, 1)}

\* (words_read, session_duration_seconds) of the sessions the model draws
SessionKinds == {<<60, 900>>, <<500, 3600>>}

UserRow(id, level) == [id |-> id, level |-> level]

ContentRow(id, difficulty) == [id |-> id, difficulty |-> difficulty, order_index |-> id]

ProgressRow(id, contentId, status) ==
    [id |-> id, user_id |-> 1, content_id |-> contentId, status |-> status,
     completion_percentage |-> IF status = "completed" THEN 100 ELSE 50,
     time_spent_seconds |-> 30, last_accessed |-> 0, created_at |-> 0]

AttemptRow(id, score, at) ==
    [id |-> id, user_id |-> 1, score |-> score, completed_at |-> at]

SessionRow(id, kind, at) ==
    [id |-> id, user_id |-> 1, words_read |-> kind[1], reading_accuracy |-> Null,
     session_duration_seconds |-> kind[2], started_at |-> at]

\* before any procedure has answered
NoResponse == [procedure |-> "none", input |-> <<>>, rows |-> <<>>, error |-> <<>>]

\* App as constructed: no users listed, no reader selected (currentUser 0
\* is null), no progress, isLoading, no loadData call and no getUserProgress
\* fetch in flight, no failed fetch logged
NoApp == [users |-> <<>>, currentUser |-> 0, userProgress |-> <<>>,
          isLoading |-> TRUE, loads |-> <<>>, fetches |-> <<>>,
          progressError |-> FALSE]

\* ContentReader as constructed, here over no text: totalWords is
\* words.length, quizzes is quizzes.length, completions holds the position
\* of every handleReadingComplete call
NoReader == [totalWords |-> 0, quizzes |-> 0, currentWordIndex |-> 0,
             isReading |-> FALSE, wordsRead |-> 0, readingSpeed |-> 300,
             showQuiz |-> FALSE, completions |-> <<>>]

\* no QuizSection mounted; sent holds the attempts handed to
\* trpc.createQuizAttempt.mutate
NoQuiz == [currentQuestionIndex |-> 0, answers |-> <<>>, showResults |-> FALSE,
           score |-> 0, isSubmitting |-> FALSE, sent |-> <<>>, pc |-> "unmounted"]

\* the components and procedures a specification leaves out
OthersIdle ==
    /\ response = NoResponse
    /\ app = NoApp
    /\ reader = NoReader
    /\ quiz = NoQuiz

IdleLoad == [pc |-> "idle", attempts |-> "unsent", sessions |-> "unsent",
             attemptsData |-> <<>>, sessionsData |-> <<>>]

LoadedLoad == [pc |-> "done", attempts |-> "ok", sessions |-> "ok",
               attemptsData |-> <<>>, sessionsData |-> <<>>]

\* scores and session kinds of the rows behind the dashboard
DashboardScores == {Rat(0, 1), Rat(100, 1)}

\* started_at of the sessions behind the dashboard: equal or different
SessionTimes == {1, 2}

DashboardSessionKinds == {<<60, 900>>}

ContentTables(n) ==
    {[i \in 1..Len(d) |-> ContentRow(i, d[i])] : d \in BoundedSeq(DrawnLevels, n)}

\* k completed rows, behind one row in progress when other is TRUE
CompletedTable(k, other) ==
    [i \in 1..(k + IF other THEN 1 ELSE 0) |->
        ProgressRow(i, i, IF other /\ i = 1 THEN "in_progress" ELSE "completed")]

ProgressTables ==
    {[i \in 1..Len(st) |-> ProgressRow(i, i, st[i])] :
        st \in BoundedSeq({"in_progress", "completed"}, MaxProgressRows)}

AttemptTables(scores, n) ==
    {[i \in 1..Len(sc) |-> AttemptRow(i, sc[i], i)] : sc \in BoundedSeq(scores, n)}

\* sessions whose started_at follows the insertion order
SessionTables(kinds, n) ==
    {[i \in 1..Len(k) |-> SessionRow(i, k[i], i)] : k \in BoundedSeq(kinds, n)}

\* sessions with any started_at, equal ones included
TimedSessionTables(kinds, n) ==
    {[i \in 1..Len(k) |-> SessionRow(i, k[i][1], k[i][2])] :
        k \in BoundedSeq(kinds \X SessionTimes, n)}

\* ProgressDashboard right after it is mounted over a populated store: the
\* first render shows the loading card, the effect has not run yet
Init ==
    /\ usersTable = <<UserRow(1, "beginner")>>
    /\ contentTable \in ContentTables(MaxContentRows)
    /\ userProgressTable \in ProgressTables
    /\ quizAttemptsTable \in AttemptTables(DashboardScores, MaxAttemptRows)
    /\ readingSessionsTable \in TimedSessionTables(DashboardSessionKinds, MaxSessionRows)
    /\ calls = [slot \in Slots |-> IdleCall]
    /\ clock = 0
    /\ user = usersTable[1]
    /\ content \in getAllContent(contentTable)
    /\ userProgress = getUserProgress(userProgressTable,
                                      [user_id |-> 1, content_id |-> Undefined])
    /\ quizAttempts = <<>>
    /\ readingSessions = <<>>
    /\ isLoading = TRUE
    /\ load = IdleLoad
    /\ tab = "stories"
    /\ dashView = [kind |-> "loading"]
    /\ achView = NotRendered
    /\ storiesView = NotRendered
    /\ OthersIdle

Next ==
    \/ loadProgressData
    \/ getQuizAttemptsResolves
    \/ getQuizAttemptsRejects
    \/ getReadingSessionsResolves
    \/ getReadingSessionsRejects
    \/ setQuizAttempts
    \/ setReadingSessions
    \/ catchLoadError
    \/ finallyLoaded
    \/ \E t \in Tabs : selectTab(t)
    \/ rerender

Spec == Init /\ [][Next]_vars

\* A loaded dashboard on its Achievements tab, for the evaluation of the
\* statistics and of the achievement catalog over drawn inputs
InitEval ==
    /\ usersTable = <<UserRow(1, "beginner")>>
    /\ contentTable = <<>>
    /\ \E k \in 0..MaxCompleted, other \in BOOLEAN :
          userProgressTable = CompletedTable(k, other)
    /\ quizAttemptsTable \in AttemptTables(Scores, MaxAttempts)
    /\ readingSessionsTable \in SessionTables(SessionKinds, MaxSessions)
    /\ calls = [slot \in Slots |-> IdleCall]
    /\ clock = 0
    /\ user = usersTable[1]
    /\ content = <<>>
    /\ userProgress = getUserProgress(userProgressTable,
                                      [user_id |-> 1, content_id |-> Undefined])
    /\ quizAttempts \in getQuizAttempts(quizAttemptsTable, 1)
    /\ readingSessions \in getReadingSessions(readingSessionsTable, 1)
    /\ isLoading = FALSE
    /\ load = [LoadedLoad EXCEPT !.attemptsData = quizAttempts,
                                  !.sessionsData = readingSessions]
    /\ tab = "achievements"
    /\ dashView = NotRendered
    /\ achView = NotRendered
    /\ storiesView = NotRendered
    /\ OthersIdle

NextEval == rerender

SpecEval == InitEval /\ [][NextEval]_vars

\* A loaded dashboard on its Stories tab, for the evaluation of the
\* statistics over a drawn catalog, level and progress
InitStats ==
    /\ \E level \in DrawnLevels : usersTable = <<UserRow(1, level)>>
    /\ contentTable \in ContentTables(MaxCatalog)
    /\ \E k \in 0..MaxStatsCompleted, other \in BOOLEAN :
          userProgressTable = CompletedTable(k, other)
    /\ quizAttemptsTable = <<>>
    /\ readingSessionsTable = <<>>
    /\ calls = [slot \in Slots |-> IdleCall]
    /\ clock = 0
    /\ user = usersTable[1]
    /\ content \in getAllContent(contentTable)
    /\ userProgress = getUserProgress(userProgressTable,
                                      [user_id |-> 1, content_id |-> Undefined])
    /\ quizAttempts = <<>>
    /\ readingSessions = <<>>
    /\ isLoading = FALSE
    /\ load = LoadedLoad
    /\ tab = "stories"
    /\ dashView = NotRendered
    /\ achView = NotRendered
    /\ storiesView = NotRendered
    /\ OthersIdle

NextStats == rerender

SpecStats == InitStats /\ [][NextStats]_vars

\* (status, completion_percentage) of the progress rows drawn for the lookup
LookupKinds == {<<"not_started", 0>>, <<"in_progress", 50>>, <<"completed", 100>>}

\* the content ids a drawn progress row can name: the catalog's and one more
LookupIds == 1..(MaxCatalog + 1)

\* progress rows of the reader in any order, several rows of one piece of
\* content and rows of content that is not in the catalog included
LookupTables ==
    {[i \in 1..Len(d) |->
        [ProgressRow(i, d[i][1], d[i][2][1]) EXCEPT !.completion_percentage = d[i][2][2]]] :
        d \in BoundedSeq(LookupIds \X LookupKinds, MaxLookupRows)}

\* A loaded dashboard on its Stories or Achievements tab, over a drawn
\* catalog and drawn progress rows
InitStories ==
    /\ usersTable = <<UserRow(1, "beginner")>>
    /\ contentTable \in ContentTables(MaxCatalog)
    /\ userProgressTable \in LookupTables
    /\ quizAttemptsTable = <<>>
    /\ readingSessionsTable = <<>>
    /\ calls = [slot \in Slots |-> IdleCall]
    /\ clock = 0
    /\ user = usersTable[1]
    /\ content \in getAllContent(contentTable)
    /\ userProgress = getUserProgress(userProgressTable,
                                      [user_id |-> 1, content_id |-> Undefined])
    /\ quizAttempts = <<>>
    /\ readingSessions = <<>>
    /\ isLoading = FALSE
    /\ load = LoadedLoad
    /\ tab \in {"stories", "achievements"}
    /\ dashView = NotRendered
    /\ achView = NotRendered
    /\ storiesView = NotRendered
    /\ OthersIdle

NextStories == rerender

SpecStories == InitStories /\ [][NextStories]_vars

\* the server with one reader, one piece of content and no progress yet
InitProgress ==
    /\ usersTable = <<UserRow(1, "beginner")>>
    /\ contentTable = <<ContentRow(1, "beginner")>>
    /\ userProgressTable = <<>>
    /\ quizAttemptsTable = <<>>
    /\ readingSessionsTable = <<>>
    /\ calls = [slot \in Slots |-> IdleCall]
    /\ clock = 0
    /\ user = usersTable[1]
    /\ content = contentTable
    /\ userProgress = <<>>
    /\ quizAttempts = <<>>
    /\ readingSessions = <<>>
    /\ isLoading = TRUE
    /\ load = IdleLoad
    /\ tab = "stories"
    /\ dashView = [kind |-> "loading"]
    /\ achView = NotRendered
    /\ storiesView = NotRendered
    /\ OthersIdle

NextProgress ==
    \/ \E slot \in Slots, input \in UpdateProgressInputs :
          selectUser(slot, input) /\ UNCHANGED <<clientVars, otherVars>>
    \/ \E slot \in Slots : selectContent(slot) /\ UNCHANGED <<clientVars, otherVars>>
    \/ \E slot \in Slots : selectExistingProgress(slot) /\ UNCHANGED <<clientVars, otherVars>>
    \/ \E slot \in Slots : writeProgress(slot) /\ UNCHANGED <<clientVars, otherVars>>

SpecProgress == InitProgress /\ [][NextProgress]_vars

\* what a client can send to createQuizAttempt: scores 0, 100 and 101
RawQuizAttemptInputs ==
    [user_id : {1}, quiz_id : {1, 2},
     score : {Rat(0, 1), Rat(100, 1), Rat(101, 1)},
     total_questions : {2}, correct_answers : {2}, time_taken_seconds : {60}]

\* what a client can send to createReadingSession
RawReadingSessionInputs ==
    [user_id : {1}, content_id : {1},
     words_read : {Undefined, Some(-5), Some(60)},
     reading_accuracy : {Undefined, Some(Null), Some(Some(0)), Some(Some(95)),
                         Some(Some(101))},
     session_duration_seconds : {-1, 900}]

\* the server with one reader, one piece of content and no attempt or session
InitCreate ==
    /\ usersTable = <<UserRow(1, "beginner")>>
    /\ contentTable = <<ContentRow(1, "beginner")>>
    /\ userProgressTable = <<>>
    /\ quizAttemptsTable = <<>>
    /\ readingSessionsTable = <<>>
    /\ calls = [slot \in Slots |-> IdleCall]
    /\ clock = 0
    /\ user = usersTable[1]
    /\ content = contentTable
    /\ userProgress = <<>>
    /\ quizAttempts = <<>>
    /\ readingSessions = <<>>
    /\ isLoading = TRUE
    /\ load = IdleLoad
    /\ tab = "stories"
    /\ dashView = [kind |-> "loading"]
    /\ achView = NotRendered
    /\ storiesView = NotRendered
    /\ OthersIdle

NextCreate ==
    \/ \E raw \in RawQuizAttemptInputs :
          createQuizAttemptProcedure(raw) /\ UNCHANGED <<clientVars, otherVars>>
    \/ \E raw \in RawReadingSessionInputs :
          createReadingSessionProcedure(raw) /\ UNCHANGED <<clientVars, otherVars>>
    \/ getReadingSessionsProcedure(1) /\ UNCHANGED <<clientVars, app, reader, quiz>>

SpecCreate == InitCreate /\ [][NextCreate]_vars

\* what a client can send to createUser: ages around the range, a level
\* that is absent, of the enum or not of the enum
RawCreateUserInputs ==
    [name : {"", "Ann"}, age : {5, 6, 12, 13},
     level : {Undefined, Some("advanced"), Some("expert")}]

\* what a client can send to updateUser
RawUpdateUserInputs ==
    [id : 1..(MaxUsers + 1),
     name : {Undefined, Some("Bo")},
     age : {Undefined, Some(5), Some(7), Some(13)},
     level : {Undefined, Some("intermediate"), Some("expert")}]

\* the server without any user
InitUsers ==
    /\ usersTable = <<>>
    /\ contentTable = <<>>
    /\ userProgressTable = <<>>
    /\ quizAttemptsTable = <<>>
    /\ readingSessionsTable = <<>>
    /\ calls = [slot \in Slots |-> IdleCall]
    /\ clock = 0
    /\ user = UserRow(0, "beginner")
    /\ content = <<>>
    /\ userProgress = <<>>
    /\ quizAttempts = <<>>
    /\ readingSessions = <<>>
    /\ isLoading = TRUE
    /\ load = IdleLoad
    /\ tab = "stories"
    /\ dashView = [kind |-> "loading"]
    /\ achView = NotRendered
    /\ storiesView = NotRendered
    /\ OthersIdle

NextUsers ==
    \/ \E raw \in RawCreateUserInputs :
          createUserProcedure(raw) /\ UNCHANGED <<clientVars, otherVars>>
    \/ \E raw \in RawUpdateUserInputs :
          updateUserProcedure(raw) /\ UNCHANGED <<clientVars, app, reader, quiz>>

SpecUsers == InitUsers /\ [][NextUsers]_vars

\* (user_id, content_id or time) of the rows behind the per-user queries
ReadShapes == BoundedSeq({1, 2} \X SessionTimes, MaxReadRows)

\* what a client can ask getUserProgress: a reader with rows, or without
\* any, with or without a content_id
ReadProgressInputs == [user_id : 1..3, content_id : {Undefined, Some(1), Some(2)}]

\* a store with rows of two readers in every table, in any insertion order
\* relative to their timestamps; reader 3 is unknown
InitRead ==
    /\ \E d \in ReadShapes :
          /\ userProgressTable =
                [i \in 1..Len(d) |->
                    [ProgressRow(i, d[i][2], "completed") EXCEPT !.user_id = d[i][1]]]
          /\ quizAttemptsTable =
                [i \in 1..Len(d) |->
                    [AttemptRow(i, Rat(80, 1), d[i][2]) EXCEPT !.user_id = d[i][1]]]
          /\ readingSessionsTable =
                [i \in 1..Len(d) |->
                    [SessionRow(i, <<60, 900>>, d[i][2]) EXCEPT
                        !.user_id = d[i][1], !.reading_accuracy = Some(95)]]
    /\ usersTable = <<UserRow(1, "beginner"), UserRow(2, "beginner")>>
    /\ contentTable = <<ContentRow(1, "beginner"), ContentRow(2, "beginner")>>
    /\ calls = [slot \in Slots |-> IdleCall]
    /\ clock = 0
    /\ user = usersTable[1]
    /\ content = contentTable
    /\ userProgress = <<>>
    /\ quizAttempts = <<>>
    /\ readingSessions = <<>>
    /\ isLoading = TRUE
    /\ load = IdleLoad
    /\ tab = "stories"
    /\ dashView = [kind |-> "loading"]
    /\ achView = NotRendered
    /\ storiesView = NotRendered
    /\ OthersIdle

NextRead ==
    \/ \E input \in ReadProgressInputs :
          getUserProgressProcedure(input) /\ UNCHANGED <<clientVars, app, reader, quiz>>
    \/ \E userId \in 1..3 :
          getQuizAttemptsProcedure(userId) /\ UNCHANGED <<clientVars, app, reader, quiz>>
    \/ \E userId \in 1..3 :
          getReadingSessionsProcedure(userId) /\ UNCHANGED <<clientVars, app, reader, quiz>>

SpecRead == InitRead /\ [][NextRead]_vars

\* what ContentReader and the library send to updateUserProgress for reader 1
JourneyProgressInputs ==
    [user_id : {1}, content_id : 1..MaxJourneyContent,
     status : {Some("in_progress"), Some("completed")},
     completion_percentage : {Some(100)}, time_spent_seconds : {Undefined}]

\* level changes of reader 1
JourneyLevelInputs ==
    [id : {1}, name : {Undefined}, age : {Undefined},
     level : {Some("beginner"), Some("intermediate")}]

\* App loads the users, the catalog and the reader's progress, and the
\* dashboard mounted over them has finished loading: loadData,
\* loadUserProgress and <ProgressDashboard user content userProgress />
openDashboard ==
    /\ user' = usersTable[1]
    /\ \E c \in getAllContent(contentTable) : content' = c
    /\ userProgress' =
          getUserProgress(userProgressTable,
                          [user_id |-> usersTable[1].id, content_id |-> Undefined])
    /\ \E qa \in getQuizAttempts(quizAttemptsTable, usersTable[1].id) :
       \E rs \in getReadingSessions(readingSessionsTable, usersTable[1].id) :
          /\ quizAttempts' = qa
          /\ readingSessions' = rs
          /\ dashView' = ProgressDashboard(user', content', userProgress', qa, rs, FALSE)
    /\ isLoading' = FALSE
    /\ load' = LoadedLoad
    /\ UNCHANGED <<serverVars, otherVars, tab, achView, storiesView>>

\* one reader at level beginner, a catalog of any difficulties, no progress
InitJourney ==
    /\ usersTable = <<[id |-> 1, name |-> "Ann", age |-> 8, level |-> "beginner",
                       created_at |-> 0, updated_at |-> 0]>>
    /\ contentTable \in ContentTables(MaxJourneyContent)
    /\ userProgressTable = <<>>
    /\ quizAttemptsTable = <<>>
    /\ readingSessionsTable = <<>>
    /\ calls = [slot \in Slots |-> IdleCall]
    /\ clock = 0
    /\ user = usersTable[1]
    /\ content = <<>>
    /\ userProgress = <<>>
    /\ quizAttempts = <<>>
    /\ readingSessions = <<>>
    /\ isLoading = TRUE
    /\ load = IdleLoad
    /\ tab = "stories"
    /\ dashView = [kind |-> "loading"]
    /\ achView = NotRendered
    /\ storiesView = NotRendered
    /\ OthersIdle

NextJourney ==
    \/ \E input \in JourneyProgressInputs :
          selectUser(1, input) /\ UNCHANGED <<clientVars, otherVars>>
    \/ selectContent(1) /\ UNCHANGED <<clientVars, otherVars>>
    \/ selectExistingProgress(1) /\ UNCHANGED <<clientVars, otherVars>>
    \/ writeProgress(1) /\ UNCHANGED <<clientVars, otherVars>>
    \/ \E raw \in JourneyLevelInputs :
          updateUserProcedure(raw) /\ UNCHANGED <<clientVars, app, reader, quiz>>
    \/ openDashboard

SpecJourney == InitJourney /\ [][NextJourney]_vars

----------------------------------------------------------------------------
(* App (client/src/App.tsx): loadData and loadUserProgress are recreated    *)
(* whenever currentUser changes and their effects call them again.  A call  *)
(* in flight is represented by what its closure holds: loadData by the      *)
(* currentUser it was created with, loadUserProgress by the user it asked   *)
(* for.                                                                      *)

\* getUsers: every user, in insertion order
getUsers(table) == table

\* s without its k-th element
RemoveAt(s, k) == [i \in 1..(Len(s) - 1) |-> IF i < k THEN s[i] ELSE s[i + 1]]

\* setCurrentUser(u) and the effects of the render that follows: loadData()
\* sets isLoading and asks the server again, loadUserProgress() returns at
\* once for null and fetches the progress of u otherwise.  loads and fetches
\* are the calls in flight that remain from before.
setCurrentUser(u, loads, fetches) ==
    [app EXCEPT !.currentUser = u,
                !.isLoading = TRUE,
                !.loads = Append(loads, u),
                !.fetches = IF u = 0 THEN fetches ELSE Append(fetches, u)]

\* Promise.all([getUsers, getAllContent]) of the k-th loadData resolves:
\* setUsers, setContent, the first user is selected when the closure's
\* currentUser is null, finally setIsLoading(false)
loadDataResolves(k) ==
    /\ k \in 1..Len(app.loads)
    /\ Len(app.fetches) < MaxFetches
    /\ app' =
          IF Len(getUsers(usersTable)) > 0 /\ app.loads[k] = 0
          THEN [setCurrentUser(getUsers(usersTable)[1].id,
                               RemoveAt(app.loads, k), app.fetches)
                  EXCEPT !.users = getUsers(usersTable)]
          ELSE [app EXCEPT !.users = getUsers(usersTable),
                           !.isLoading = FALSE,
                           !.loads = RemoveAt(app.loads, k)]
    /\ \E c \in getAllContent(contentTable) : content' = c
    /\ UNCHANGED <<serverVars, response, reader, quiz, user, userProgress,
                   quizAttempts, readingSessions, isLoading, load, tab, dashView,
                   achView, storiesView>>

\* the k-th loadData fails: the error is logged, finally setIsLoading(false)
loadDataRejects(k) ==
    /\ k \in 1..Len(app.loads)
    /\ app' = [app EXCEPT !.isLoading = FALSE, !.loads = RemoveAt(app.loads, k)]
    /\ UNCHANGED <<serverVars, clientVars, response, reader, quiz>>

\* a card of "Who's Reading Today?" is clicked: setCurrentUser(user)
selectReader(u) ==
    /\ ~app.isLoading
    /\ app.currentUser = 0
    /\ \E i \in 1..Len(app.users) : app.users[i].id = u
    /\ Len(app.loads) < MaxLoads
    /\ Len(app.fetches) < MaxFetches
    /\ app' = setCurrentUser(u, app.loads, app.fetches)
    /\ UNCHANGED <<serverVars, clientVars, response, reader, quiz>>

\* "Switch Reader": setCurrentUser(null); userProgress is kept
switchReader ==
    /\ ~app.isLoading
    /\ app.currentUser # 0
    /\ Len(app.loads) < MaxLoads
    /\ app' = setCurrentUser(0, app.loads, app.fetches)
    /\ UNCHANGED <<serverVars, clientVars, response, reader, quiz>>

\* the k-th getUserProgress fetch resolves: setUserProgress(progressData),
\* whoever the current reader is by now
getUserProgressResolves(k) ==
    /\ k \in 1..Len(app.fetches)
    /\ app' = [app EXCEPT
                  !.userProgress =
                      getUserProgress(userProgressTable,
                                      [user_id |-> app.fetches[k],
                                       content_id |-> Undefined]),
                  !.fetches = RemoveAt(app.fetches, k)]
    /\ UNCHANGED <<serverVars, clientVars, response, reader, quiz>>

\* the k-th getUserProgress fetch fails: the error is logged
getUserProgressRejects(k) ==
    /\ k \in 1..Len(app.fetches)
    /\ app' = [app EXCEPT !.progressError = TRUE,
                          !.fetches = RemoveAt(app.fetches, k)]
    /\ UNCHANGED <<serverVars, clientVars, response, reader, quiz>>

\* two readers with one progress row each; App is mounted and its first
\* loadData is in flight
InitApp ==
    /\ usersTable = <<UserRow(1, "beginner"), UserRow(2, "beginner")>>
    /\ contentTable = <<ContentRow(1, "beginner")>>
    /\ userProgressTable =
          <<ProgressRow(1, 1, "completed"),
            [ProgressRow(2, 1, "in_progress") EXCEPT !.user_id = 2]>>
    /\ quizAttemptsTable = <<>>
    /\ readingSessionsTable = <<>>
    /\ calls = [slot \in Slots |-> IdleCall]
    /\ clock = 0
    /\ user = usersTable[1]
    /\ content = <<>>
    /\ userProgress = <<>>
    /\ quizAttempts = <<>>
    /\ readingSessions = <<>>
    /\ isLoading = TRUE
    /\ load = IdleLoad
    /\ tab = "stories"
    /\ dashView = [kind |-> "loading"]
    /\ achView = NotRendered
    /\ storiesView = NotRendered
    /\ response = NoResponse
    /\ app = [NoApp EXCEPT !.loads = <<0>>]
    /\ reader = NoReader
    /\ quiz = NoQuiz

NextApp ==
    \/ \E k \in 1..MaxLoads : loadDataResolves(k)
    \/ \E k \in 1..MaxLoads : loadDataRejects(k)
    \/ \E u \in 1..2 : selectReader(u)
    \/ switchReader
    \/ \E k \in 1..MaxFetches : getUserProgressResolves(k)
    \/ \E k \in 1..MaxFetches : getUserProgressRejects(k)

SpecApp == InitApp /\ [][NextApp]_vars

----------------------------------------------------------------------------
(* ContentReader (client/src/components/ContentReader.tsx) for reader 1 and *)
(* content 1.  The k-th handleReadingComplete call is completions[k]; its   *)
(* updateUserProgress request runs in slot k of the handler.                *)

ReaderSpeeds == {150, 300, 450}

\* sessionDuration: whole seconds since the reader was mounted
ReaderDurations == {5}

\* the player is rendered, not the quiz
PlayerShown == ~(reader.showQuiz /\ reader.quizzes > 0)

readerFrame == <<clientVars, response, app, quiz>>

\* "Start Reading" / "Continue"
handleStartReading ==
    /\ PlayerShown
    /\ ~reader.isReading
    /\ Len(reader.completions) < MaxRuns
    /\ reader' = [reader EXCEPT !.isReading = TRUE, !.currentWordIndex = 0,
                                !.wordsRead = 0]
    /\ UNCHANGED <<serverVars, readerFrame>>

\* "Pause"
handlePauseReading ==
    /\ PlayerShown
    /\ reader.isReading
    /\ reader' = [reader EXCEPT !.isReading = FALSE]
    /\ UNCHANGED <<serverVars, readerFrame>>

\* "Reset"
handleResetReading ==
    /\ PlayerShown
    /\ reader' = [reader EXCEPT !.isReading = FALSE, !.currentWordIndex = 0,
                                !.wordsRead = 0]
    /\ UNCHANGED <<serverVars, readerFrame>>

\* a word is clicked
handleWordClick(index) ==
    /\ PlayerShown
    /\ index < reader.totalWords
    /\ reader' = [reader EXCEPT
                     !.currentWordIndex = index,
                     !.wordsRead = IF @ > index + 1 THEN @ ELSE index + 1]
    /\ UNCHANGED <<serverVars, readerFrame>>

\* the speed select
adjustSpeed(newSpeed) ==
    /\ PlayerShown
    /\ reader' = [reader EXCEPT !.readingSpeed = newSpeed]
    /\ UNCHANGED <<serverVars, readerFrame>>

\* the interval callback: past the last word it stops the reading and calls
\* handleReadingComplete, which sends createReadingSession; otherwise it
\* moves to the next word and sets wordsRead to its index
intervalTick ==
    /\ reader.isReading
    /\ reader' =
          IF reader.currentWordIndex + 1 >= reader.totalWords
          THEN [reader EXCEPT !.isReading = FALSE,
                              !.completions = Append(@, "createReadingSession")]
          ELSE [reader EXCEPT !.currentWordIndex = @ + 1,
                              !.wordsRead = reader.currentWordIndex + 1]
    /\ UNCHANGED <<serverVars, readerFrame>>

\* await trpc.createReadingSession.mutate(sessionData) of the k-th call
\* succeeds: the server has stored the session
createReadingSessionResolves(k) ==
    /\ k \in 1..Len(reader.completions)
    /\ reader.completions[k] = "createReadingSession"
    /\ \E d \in ReaderDurations :
          createReadingSessionProcedure(
              [user_id |-> 1, content_id |-> 1,
               words_read |-> Some(reader.totalWords),
               reading_accuracy |-> Undefined,
               session_duration_seconds |-> d])
    /\ reader' = [reader EXCEPT !.completions[k] = "sessionCreated"]
    /\ UNCHANGED readerFrame

\* the failure also ends the call as if no progress had been asked for
createReadingSessionRejectsUnnoticed(k) ==
    /\ k \in 1..Len(reader.completions)
    /\ reader.completions[k] = "createReadingSession"
    /\ reader' = [reader EXCEPT !.completions[k] = "sessionCreated"]
    /\ UNCHANGED <<serverVars, readerFrame>>

\* the mutate fails: the catch logs the error and the call ends
createReadingSessionRejects(k) ==
    /\ k \in 1..Len(reader.completions)
    /\ reader.completions[k] = "createReadingSession"
    /\ reader' = [reader EXCEPT !.completions[k] = "sessionFailed"]
    /\ UNCHANGED <<serverVars, readerFrame>>

\* trpc.updateUserProgress.mutate({... status: 'completed',
\* completion_percentage: 100, ...}) is sent and the handler starts
updateUserProgressSent(k) ==
    /\ k \in 1..Len(reader.completions)
    /\ reader.completions[k] = "sessionCreated"
    /\ \E d \in ReaderDurations :
          selectUser(k, [user_id |-> 1, content_id |-> 1,
                         status |-> Some("completed"),
                         completion_percentage |-> Some(100),
                         time_spent_seconds |-> Some(d)])
    /\ reader' = [reader EXCEPT !.completions[k] = "updateUserProgress"]
    /\ UNCHANGED readerFrame

\* the mutate succeeds: onProgressUpdate() lets App fetch the progress
\* again and the quiz is shown if there is one
updateUserProgressResolves(k) ==
    /\ k \in 1..Len(reader.completions)
    /\ reader.completions[k] = "updateUserProgress"
    /\ calls[k].pc = "idle"
    /\ calls[k].outcome = "ok"
    /\ reader' = [reader EXCEPT !.completions[k] = "done",
                                !.showQuiz = IF reader.quizzes > 0 THEN TRUE ELSE @]
    /\ app' = [app EXCEPT !.fetches = Append(@, 1)]
    /\ UNCHANGED <<serverVars, clientVars, response, quiz>>

\* the mutate fails, by the handler's error or on the way
updateUserProgressRejects(k) ==
    /\ k \in 1..Len(reader.completions)
    /\ reader.completions[k] = "updateUserProgress"
    /\ reader' = [reader EXCEPT !.completions[k] = "progressFailed"]
    /\ UNCHANGED <<serverVars, readerFrame>>

\* the reader is mounted over a text of one or more words, with or without
\* a quiz; reader 1 and content 1 are stored
InitReader ==
    /\ usersTable = <<UserRow(1, "beginner")>>
    /\ contentTable = <<ContentRow(1, "beginner")>>
    /\ userProgressTable = <<>>
    /\ quizAttemptsTable = <<>>
    /\ readingSessionsTable = <<>>
    /\ calls = [slot \in Slots |-> IdleCall]
    /\ clock = 0
    /\ user = usersTable[1]
    /\ content = contentTable
    /\ userProgress = <<>>
    /\ quizAttempts = <<>>
    /\ readingSessions = <<>>
    /\ isLoading = TRUE
    /\ load = IdleLoad
    /\ tab = "stories"
    /\ dashView = [kind |-> "loading"]
    /\ achView = NotRendered
    /\ storiesView = NotRendered
    /\ response = NoResponse
    /\ app = NoApp
    /\ \E n \in 1..MaxWords, q \in {0, 1} :
          reader = [NoReader EXCEPT !.totalWords = n, !.quizzes = q]
    /\ quiz = NoQuiz

NextReader ==
    \/ handleStartReading
    \/ handlePauseReading
    \/ handleResetReading
    \/ \E index \in 0..(MaxWords - 1) : handleWordClick(index)
    \/ \E newSpeed \in ReaderSpeeds : adjustSpeed(newSpeed)
    \/ intervalTick
    \/ \E k \in 1..MaxRuns : createReadingSessionResolves(k)
    \/ \E k \in 1..MaxRuns : createReadingSessionRejects(k)
    \/ \E k \in 1..MaxRuns : updateUserProgressSent(k)
    \/ \E k \in 1..MaxRuns : selectContent(k) /\ UNCHANGED <<clientVars, otherVars>>
    \/ \E k \in 1..MaxRuns : selectExistingProgress(k) /\ UNCHANGED <<clientVars, otherVars>>
    \/ \E k \in 1..MaxRuns : writeProgress(k) /\ UNCHANGED <<clientVars, otherVars>>
    \/ \E k \in 1..MaxRuns : updateUserProgressResolves(k)
    \/ \E k \in 1..MaxRuns : updateUserProgressRejects(k)

SpecReader == InitReader /\ [][NextReader]_vars

----------------------------------------------------------------------------
(* QuizSection (client/src/components/QuizSection.tsx) for reader 1 and     *)
(* quiz 1.  A string is the sequence of its characters.                     *)

UpperCase == <<"A", "B", "C", "D", "E", "F", "G", "H", "I", "J", "K", "L", "M",
               "N", "O", "P", "Q", "R", "S", "T", "U", "V", "W", "X", "Y", "Z">>

LowerCase == <<"a", "b", "c", "d", "e", "f", "g", "h", "i", "j", "k", "l", "m",
               "n", "o", "p", "q", "r", "s", "t", "u", "v", "w", "x", "y", "z">>

\* String.prototype.toLowerCase
toLowerCase(str) ==
    [i \in 1..Len(str) |->
        IF \E k \in 1..Len(UpperCase) : UpperCase[k] = str[i]
        THEN LowerCase[CHOOSE k \in 1..Len(UpperCase) : UpperCase[k] = str[i]]
        ELSE str[i]]

RECURSIVE trimStart(_)
trimStart(str) ==
    IF Len(str) > 0 /\ Head(str) = " " THEN trimStart(Tail(str)) ELSE str

RECURSIVE trimEnd(_)
trimEnd(str) ==
    IF Len(str) > 0 /\ str[Len(str)] = " "
    THEN trimEnd(SubSeq(str, 1, Len(str) - 1)) ELSE str

\* only the leading whitespace is removed
trimStartOnly(str) == trimStart(str)

\* String.prototype.trim
trim(str) == trimEnd(trimStart(str))

\* createSampleQuestions: the three questions of every quiz; options holds
\* what the question's control lets the reader enter (for the blank, some
\* typed texts: right, padded and capitalised, split, wrong, empty, blank)
sampleQuestions ==
    <<[id |-> 1, question_type |-> "multiple_choice",
       correct_answer |-> <<"S", "a", "m">>,
       options |-> {<<"S", "a", "m">>, <<"T", "o", "m">>, <<"B", "e", "n">>,
                    <<"M", "a", "x">>}],
      [id |-> 2, question_type |-> "true_false",
       correct_answer |-> <<"t", "r", "u", "e">>,
       options |-> {<<"t", "r", "u", "e">>, <<"f", "a", "l", "s", "e">>}],
      [id |-> 3, question_type |-> "fill_blank",
       correct_answer |-> <<"h", "a", "p", "p", "y">>,
       options |-> {<<"h", "a", "p", "p", "y">>,
                    <<" ", "H", "a", "p", "p", "y", " ">>,
                    <<"h", "a", "p", " ", "p", "y">>,
                    <<"s", "a", "d">>, <<>>, <<" ">>}]>>

\* answers[question.id] is truthy: given and not the empty string
Answered(answers, id) == answers[id] # Undefined /\ Len(answers[id][1]) > 0

\* the test of calculateResults on one question
isCorrect(answers, question) ==
    /\ Answered(answers, question.id)
    /\ trim(toLowerCase(answers[question.id][1])) =
          trim(toLowerCase(question.correct_answer))

quizFrame == <<clientVars, response, app, reader>>

\* a choice is clicked or the blank is edited on the question shown
handleAnswer(answer) ==
    /\ quiz.pc = "open"
    /\ ~quiz.showResults
    /\ answer \in sampleQuestions[quiz.currentQuestionIndex + 1].options
    /\ quiz' = [quiz EXCEPT
                   !.answers[sampleQuestions[quiz.currentQuestionIndex + 1].id] =
                       Some(answer)]
    /\ UNCHANGED <<serverVars, quizFrame>>

\* "Next" / "Finish Quiz", disabled while the question shown has no answer:
\* before the last question it moves on; at the last one calculateResults
\* counts the correct answers, shows the results and sends the attempt
handleNext ==
    /\ quiz.pc = "open"
    /\ ~quiz.showResults
    /\ Answered(quiz.answers, sampleQuestions[quiz.currentQuestionIndex + 1].id)
    /\ quiz' =
          IF quiz.currentQuestionIndex < Len(sampleQuestions) - 1
          THEN [quiz EXCEPT !.currentQuestionIndex = @ + 1]
          ELSE LET correctCount ==
                       CountWhere(sampleQuestions,
                                  LAMBDA q : isCorrect(quiz.answers, q))
                   finalScore ==
                       MathRound(RatTimesInt(Rat(correctCount, Len(sampleQuestions)),
                                             100))
               IN  [quiz EXCEPT
                       !.score = finalScore,
                       !.showResults = TRUE,
                       !.isSubmitting = TRUE,
                       !.sent = Append(@, [user_id |-> 1, quiz_id |-> 1,
                                           score |-> Rat(finalScore, 1),
                                           total_questions |-> Len(sampleQuestions),
                                           correct_answers |-> correctCount,
                                           time_taken_seconds |-> 300])]
    /\ UNCHANGED <<serverVars, quizFrame>>

\* "Previous", disabled on the first question
handlePrevious ==
    /\ quiz.pc = "open"
    /\ ~quiz.showResults
    /\ quiz.currentQuestionIndex > 0
    /\ quiz' = [quiz EXCEPT !.currentQuestionIndex = @ - 1]
    /\ UNCHANGED <<serverVars, quizFrame>>

\* await trpc.createQuizAttempt.mutate(attemptData) succeeds
quizAttemptResolves ==
    /\ quiz.isSubmitting
    /\ createQuizAttemptProcedure(quiz.sent[Len(quiz.sent)])
    /\ quiz' = [quiz EXCEPT !.isSubmitting = FALSE]
    /\ UNCHANGED quizFrame

\* the mutate fails: the error is logged
quizAttemptRejects ==
    /\ quiz.isSubmitting
    /\ quiz' = [quiz EXCEPT !.isSubmitting = FALSE]
    /\ UNCHANGED <<serverVars, quizFrame>>

\* "Skip Quiz" on a question, or "Continue Learning" on the results once
\* the attempt is no longer being submitted: the quiz is left
leaveQuiz ==
    /\ quiz.pc = "open"
    /\ ~quiz.isSubmitting
    /\ quiz' = [quiz EXCEPT !.pc = "closed"]
    /\ UNCHANGED <<serverVars, quizFrame>>

\* the quiz is opened on its first question, nothing answered
InitQuiz ==
    /\ usersTable = <<UserRow(1, "beginner")>>
    /\ contentTable = <<ContentRow(1, "beginner")>>
    /\ userProgressTable = <<>>
    /\ quizAttemptsTable = <<>>
    /\ readingSessionsTable = <<>>
    /\ calls = [slot \in Slots |-> IdleCall]
    /\ clock = 0
    /\ user = usersTable[1]
    /\ content = contentTable
    /\ userProgress = <<>>
    /\ quizAttempts = <<>>
    /\ readingSessions = <<>>
    /\ isLoading = TRUE
    /\ load = IdleLoad
    /\ tab = "stories"
    /\ dashView = [kind |-> "loading"]
    /\ achView = NotRendered
    /\ storiesView = NotRendered
    /\ response = NoResponse
    /\ app = NoApp
    /\ reader = NoReader
    /\ quiz = [NoQuiz EXCEPT !.pc = "open",
                             !.answers = [q \in 1..Len(sampleQuestions) |-> Undefined]]

NextQuiz ==
    \/ \E answer \in UNION {sampleQuestions[q].options : q \in 1..Len(sampleQuestions)} :
          handleAnswer(answer)
    \/ handleNext
    \/ handlePrevious
    \/ quizAttemptResolves
    \/ quizAttemptRejects
    \/ leaveQuiz

SpecQuiz == InitQuiz /\ [][NextQuiz]_vars

----------------------------------------------------------------------------
(* Properties.  The expected values are computed here from the inputs of    *)
(* the evaluation, independently of the component's own operators.          *)

AchievementsShown == achView.kind = "achievements"

StatsShown == dashView.kind = "stats"

\* the aggregates of the catalog of section 4.2, from the lists on screen
CountCompleted == Cardinality({i \in 1..Len(userProgress) : userProgress[i].status = "completed"})

SumWords == SumSeq([i \in 1..Len(readingSessions) |-> readingSessions[i].words_read])

SumSeconds ==
    SumSeq([i \in 1..Len(readingSessions) |-> readingSessions[i].session_duration_seconds])

SumScores == RatSum([i \in 1..Len(quizAttempts) |-> quizAttempts[i].score])

\* the mean of the scores is at least k
MeanAtLeast(k) ==
    /\ Len(quizAttempts) > 0
    /\ SumScores[1] >= k * Len(quizAttempts) * SumScores[2]

CountPerfect ==
    Cardinality({i \in 1..Len(quizAttempts) :
                    quizAttempts[i].score[1] = 100 * quizAttempts[i].score[2]})

\* the catalog of section 4.2 in its definition order
CatalogOrder ==
    << "first_story", "story_master", "reading_champion", "word_explorer",
       "word_collector", "word_master", "quick_reader", "dedicated_reader",
       "quiz_rookie", "quiz_expert", "perfect_score", "quiz_master",
       "getting_started", "level_up_ready" >>

CatalogIndex(id) == CHOOSE k \in 1..Len(CatalogOrder) : CatalogOrder[k] = id

Shown(id) ==
    LET list == achView.sortedAchievements
    IN list[CHOOSE k \in 1..Len(list) : list[k].id = id]

ExpectedUnlocked(id) ==
    CASE id = "first_story"      -> CountCompleted >= 1
      [] id = "story_master"     -> CountCompleted >= 5
      [] id = "reading_champion" -> CountCompleted >= 10
      [] id = "word_explorer"    -> SumWords >= 100
      [] id = "word_collector"   -> SumWords >= 500
      [] id = "word_master"      -> SumWords >= 1000
      [] id = "quick_reader"     -> SumSeconds >= 1800
      [] id = "dedicated_reader" -> SumSeconds >= 7200
      [] id = "quiz_rookie"      -> Len(quizAttempts) >= 1
      [] id = "quiz_expert"      -> MeanAtLeast(80)
      [] id = "perfect_score"    -> CountPerfect >= 1
      [] id = "quiz_master"      -> CountPerfect >= 3
      [] id = "getting_started"  -> Len(readingSessions) >= 1
      [] id = "level_up_ready"   -> CountCompleted >= 8 /\ MeanAtLeast(75)

CatalogIds == {CatalogOrder[k] : k \in 1..Len(CatalogOrder)}

ShownIds == {achView.sortedAchievements[k].id : k \in 1..Len(achView.sortedAchievements)}

\* C1: each of the 14 achievements is shown unlocked exactly when its catalog
\* condition holds for the aggregates of the lists it was evaluated on
C1_UnlockMatchesCatalog ==
    AchievementsShown =>
        /\ Len(achView.sortedAchievements) = 14
        /\ ShownIds = CatalogIds
        /\ \A id \in CatalogIds : Shown(id).unlocked = ExpectedUnlocked(id)

\* 8 completed rows and a mean of exactly 75 unlock level_up_ready
C1_Witness ==
    /\ AchievementsShown
    /\ CountCompleted = 8
    /\ Len(quizAttempts) > 0
    /\ SumScores[1] = 75 * Len(quizAttempts) * SumScores[2]
    /\ Shown("level_up_ready").unlocked

\* C2: the store never holds two user_progress rows for one (user_id, content_id)
C2_OneRowPerPair ==
    \A i, j \in 1..Len(userProgressTable) :
        (/\ userProgressTable[i].user_id = userProgressTable[j].user_id
         /\ userProgressTable[i].content_id = userProgressTable[j].content_id) => i = j

EligibleCount == Cardinality({i \in 1..Len(content) : content[i].difficulty = user.level})

\* C3: the overall progress shown is completed / eligible * 100 when some
\* content has the user's level, and 0 when none has
C3_OverallProgress ==
    StatsShown =>
        /\ dashView.totalContent = EligibleCount
        /\ dashView.completedContent = CountCompleted
        /\ EligibleCount > 0 =>
              /\ dashView.overallProgress[2] > 0
              /\ dashView.overallProgress[1] * EligibleCount =
                    CountCompleted * 100 * dashView.overallProgress[2]
        /\ EligibleCount = 0 => dashView.overallProgress = <<0, 1>>

\* no content at the user's level while progress rows are completed
C3_Witness ==
    /\ StatsShown
    /\ EligibleCount = 0
    /\ CountCompleted >= 1
    /\ Len(content) >= 1
    /\ dashView.overallProgress = <<0, 1>>

\* the value is the mean of all the scores, or 0 for no attempts
IsMeanOfScores(avg) ==
    /\ avg[2] > 0
    /\ Len(quizAttempts) > 0 =>
          avg[1] * SumScores[2] * Len(quizAttempts) = SumScores[1] * avg[2]
    /\ Len(quizAttempts) = 0 => avg = <<0, 1>>

\* C4: the average quiz score of both components is the sum of all attempts'
\* scores over the number of attempts, and 0 when there is no attempt
C4_AverageQuizScore ==
    /\ AchievementsShown => IsMeanOfScores(achView.averageQuizScore)
    /\ StatsShown => IsMeanOfScores(dashView.averageQuizScore)

\* attempts scored 100 and 80 average 90
C4_Witness ==
    /\ AchievementsShown /\ StatsShown
    /\ Len(quizAttempts) = 2
    /\ {quizAttempts[1].score, quizAttempts[2].score} = {<<100, 1>>, <<80, 1>>}
    /\ achView.averageQuizScore = <<90, 1>>
    /\ dashView.averageQuizScore = <<90, 1>>

\* the raw metric and the cap of the achievements that carry a progress pair
ExpectedProgress(id) ==
    CASE id = "story_master"     -> <<CountCompleted, 5>>
      [] id = "reading_champion" -> <<CountCompleted, 10>>
      [] id = "word_explorer"    -> <<SumWords, 100>>
      [] id = "word_collector"   -> <<SumWords, 500>>
      [] id = "word_master"      -> <<SumWords, 1000>>
      [] id = "quick_reader"     -> <<SumSeconds, 1800>>
      [] id = "dedicated_reader" -> <<SumSeconds, 7200>>
      [] id = "quiz_master"      -> <<CountPerfect, 3>>

WithProgress ==
    {"story_master", "reading_champion", "word_explorer", "word_collector",
     "word_master", "quick_reader", "dedicated_reader", "quiz_master"}

\* C5: every achievement with a progress pair shows progress = min(raw metric,
\* maxProgress), hence 0 <= progress <= maxProgress; the others show no pair
C5_ProgressClamped ==
    AchievementsShown =>
        \A id \in CatalogIds :
            IF id \in WithProgress
            THEN /\ Shown(id).maxProgress = <<ExpectedProgress(id)[2]>>
                 /\ Shown(id).progress =
                       <<IF ExpectedProgress(id)[1] <= ExpectedProgress(id)[2]
                         THEN ExpectedProgress(id)[1] ELSE ExpectedProgress(id)[2]>>
                 /\ 0 <= Shown(id).progress[1]
                 /\ Shown(id).progress[1] <= Shown(id).maxProgress[1]
            ELSE Shown(id).progress = <<>> /\ Shown(id).maxProgress = <<>>

\* 120 words read: word_explorer shows 100 of 100
C5_Witness ==
    /\ AchievementsShown
    /\ SumWords = 120
    /\ Shown("word_explorer").progress = <<100>>
    /\ CountCompleted > 5
    /\ Shown("story_master").progress = <<5>>

AllEmpty ==
    content = <<>> /\ userProgress = <<>> /\ quizAttempts = <<>> /\ readingSessions = <<>>

\* C6: over empty content, progress, attempts and sessions every statistic
\* is 0 and first_story, quiz_rookie and getting_started are locked
C6_EmptyInputs ==
    AllEmpty =>
        /\ StatsShown =>
              /\ dashView.overallProgress = <<0, 1>>
              /\ dashView.averageQuizScore = <<0, 1>>
              /\ dashView.totalWordsRead = 0
              /\ dashView.totalReadingTime = 0
        /\ AchievementsShown =>
              /\ achView.averageQuizScore = <<0, 1>>
              /\ achView.totalWordsRead = 0
              /\ achView.totalReadingTime = 0
              /\ ~Shown("first_story").unlocked
              /\ ~Shown("quiz_rookie").unlocked
              /\ ~Shown("getting_started").unlocked

\* an empty store, loaded, with the Achievements tab open
C6_Witness ==
    /\ AllEmpty
    /\ StatsShown
    /\ AchievementsShown
    /\ load.attempts = "ok" /\ load.sessions = "ok"

\* C7 as stated: the statistics are on screen only after both fetches have
\* completed, with both lists taken from that fan-in
C7_ShownOnlyAfterBothFetches ==
    StatsShown =>
        /\ load.attempts # "pending" /\ load.sessions # "pending"
        /\ \/ quizAttempts = load.attemptsData /\ readingSessions = load.sessionsData
           \/ quizAttempts = <<>> /\ readingSessions = <<>>

\* C7 amended: the statistics are on screen only after loadProgressData has
\* run to its end; then either both fetches succeeded and both lists are the
\* fetched ones, or a fetch failed and neither list was installed
C7_NoPartialResults ==
    StatsShown =>
        /\ load.pc = "done"
        /\ \/ /\ load.attempts = "ok" /\ load.sessions = "ok"
              /\ quizAttempts = load.attemptsData
              /\ readingSessions = load.sessionsData
           \/ /\ load.attempts = "err" \/ load.sessions = "err"
              /\ quizAttempts = <<>> /\ readingSessions = <<>>

\* both fetches succeeded with data and the statistics are on screen
C7_Witness ==
    /\ StatsShown
    /\ load.attempts = "ok" /\ load.sessions = "ok"
    /\ quizAttempts # <<>> /\ readingSessions # <<>>
    /\ quizAttempts = load.attemptsData

\* a step that evaluates the components without installing a fetched list
Evaluation == rerender \/ finallyLoaded \/ loadProgressData \/ \E t \in Tabs : selectTab(t)

\* C8: an evaluation leaves content, progress, attempts and sessions as they
\* were, order included, and a repeated evaluation shows the same statistics
\* and the same achievement list
C8_EvaluationIsPure ==
    [][Evaluation =>
          /\ content' = content
          /\ userProgress' = userProgress
          /\ quizAttempts' = quizAttempts
          /\ readingSessions' = readingSessions
          /\ (StatsShown /\ dashView'.kind = "stats") => dashView' = dashView
          /\ (AchievementsShown /\ achView'.kind = "achievements") => achView' = achView]_vars

\* the Sessions tab has sorted two sessions of different start times
C8_Witness ==
    /\ StatsShown
    /\ tab = "sessions"
    /\ Len(readingSessions) >= 2
    /\ readingSessions[1].started_at # readingSessions[2].started_at

CategoryOrder(category) ==
    CASE category = "progress" -> 1 [] category = "quiz" -> 2 [] category = "reading" -> 3

\* C9: in the displayed list unlocked achievements precede locked ones, then
\* categories ascend progress < quiz < reading, then the catalog order is kept
C9_DisplayOrder ==
    AchievementsShown =>
        LET list == achView.sortedAchievements
        IN /\ ShownIds = CatalogIds
           /\ Len(list) = Len(CatalogOrder)
           /\ \A i, j \in 1..Len(list) :
                i < j =>
                    /\ list[i].unlocked \/ ~list[j].unlocked
                    /\ list[i].unlocked = list[j].unlocked =>
                          CategoryOrder(list[i].category) <= CategoryOrder(list[j].category)
                    /\ (/\ list[i].unlocked = list[j].unlocked
                        /\ list[i].category = list[j].category) =>
                          CatalogIndex(list[i].id) < CatalogIndex(list[j].id)

\* unlocked and locked achievements in each of the three categories
C9_Witness ==
    /\ AchievementsShown
    /\ Shown("first_story").unlocked /\ ~Shown("word_master").unlocked
    /\ Shown("quiz_rookie").unlocked /\ ~Shown("quiz_master").unlocked
    /\ Shown("getting_started").unlocked /\ ~Shown("level_up_ready").unlocked
    /\ achView.sortedAchievements[1].id = "getting_started"

\* C10: perfectQuizzes counts the attempts scored exactly 100; perfect_score
\* is unlocked iff the count is >= 1 and quiz_master iff it is >= 3
C10_PerfectQuizCount ==
    AchievementsShown =>
        /\ achView.perfectQuizzes = CountPerfect
        /\ Shown("perfect_score").unlocked = (CountPerfect >= 1)
        /\ Shown("quiz_master").unlocked = (CountPerfect >= 3)

\* two attempts of 100 and one of 99.99: two perfect quizzes, quiz_master locked
C10_Witness ==
    /\ AchievementsShown
    /\ Len(quizAttempts) = 3
    /\ \E i \in 1..3 : quizAttempts[i].score = <<9999, 100>>
    /\ achView.perfectQuizzes = 2
    /\ Shown("perfect_score").unlocked
    /\ ~Shown("quiz_master").unlocked

StoriesShown == storiesView.kind = "stories"

ContentIds == {content[k].id : k \in 1..Len(content)}

\* C11: the completed count of both components is the number of completed
\* progress rows, rows of content that is missing from the catalog or of
\* another level included; such a row only has no entry in the Stories tab
C11_CompletedCountIgnoresContent ==
    /\ StatsShown => dashView.completedContent = CountCompleted
    /\ AchievementsShown => achView.completedStories = CountCompleted
    /\ StoriesShown =>
          \A k \in 1..Len(storiesView.items) :
              \E j \in 1..Len(content) :
                  /\ content[j].id = storiesView.items[k].id
                  /\ content[j].difficulty = user.level

\* the only completed row names content that is not in the catalog, and it
\* is counted
C11_Witness ==
    /\ StatsShown /\ StoriesShown
    /\ Len(content) >= 1
    /\ CountCompleted >= 1
    /\ \A i \in 1..Len(userProgress) :
          userProgress[i].status = "completed" => userProgress[i].content_id \notin ContentIds
    /\ dashView.completedContent = CountCompleted

\* C12: the words read and the reading time of both components are the sums
\* of words_read and of session_duration_seconds over all sessions, 0 for none
C12_SessionSums ==
    /\ AchievementsShown =>
          /\ achView.totalWordsRead = SumWords
          /\ achView.totalReadingTime = SumSeconds
    /\ StatsShown =>
          /\ dashView.totalWordsRead = SumWords
          /\ dashView.totalReadingTime = SumSeconds
    /\ readingSessions = <<>> =>
          /\ AchievementsShown => achView.totalWordsRead = 0 /\ achView.totalReadingTime = 0
          /\ StatsShown => dashView.totalWordsRead = 0 /\ dashView.totalReadingTime = 0

\* two sessions of 60 words and 900 s: 120 words, 1800 s, word_explorer and
\* quick_reader unlocked
C12_Witness ==
    /\ AchievementsShown /\ StatsShown
    /\ Len(readingSessions) = 2
    /\ \A i \in 1..2 : /\ readingSessions[i].words_read = 60
                        /\ readingSessions[i].session_duration_seconds = 900
    /\ achView.totalWordsRead = 120 /\ achView.totalReadingTime = 1800
    /\ dashView.totalWordsRead = 120 /\ dashView.totalReadingTime = 1800
    /\ Shown("word_explorer").unlocked /\ Shown("quick_reader").unlocked

\* the progress rows of a content id, by position
MatchingRows(id) == {i \in 1..Len(userProgress) : userProgress[i].content_id = id}

\* the completion_percentage of the first row of a content id, 0 without one
FirstMatchPercentage(id) ==
    IF MatchingRows(id) = {} THEN 0
    ELSE userProgress[CHOOSE i \in MatchingRows(id) :
                          \A j \in MatchingRows(id) : i <= j].completion_percentage

\* C13: the per-content lookup gives, for every content id, the
\* completion_percentage of the first progress row of that id and 0 when
\* there is none, also when several rows have the id
C13_LookupFirstMatch ==
    /\ \A id \in LookupIds : getContentProgress(userProgress, id) = FirstMatchPercentage(id)
    /\ StoriesShown =>
          \A k \in 1..Len(storiesView.items) :
              storiesView.items[k].progress = FirstMatchPercentage(storiesView.items[k].id)

\* one piece shown with two rows of different percentages, another with none
C13_Witness ==
    /\ StoriesShown
    /\ \E k \in 1..Len(storiesView.items) :
          LET id == storiesView.items[k].id
          IN /\ Cardinality(MatchingRows(id)) = 2
             /\ userProgress[1].completion_percentage # userProgress[2].completion_percentage
             /\ storiesView.items[k].progress = userProgress[1].completion_percentage
    /\ \E k \in 1..Len(storiesView.items) :
          /\ MatchingRows(storiesView.items[k].id) = {}
          /\ storiesView.items[k].progress = 0

ExpectedUnlockedCount == Cardinality({id \in CatalogIds : ExpectedUnlocked(id)})

\* C14: the unlock ratio shown is unlockedCount / 14 * 100, with
\* unlockedCount the number of catalog entries whose condition holds, so
\* 0 <= unlockedCount <= 14, and the denominator is 14 for every input
C14_UnlockRatio ==
    AchievementsShown =>
        /\ achView.totalAchievements = 14
        /\ achView.unlockedCount = ExpectedUnlockedCount
        /\ 0 <= achView.unlockedCount /\ achView.unlockedCount <= 14
        /\ achView.overallProgress[2] > 0
        /\ achView.overallProgress[1] * 14 =
              achView.unlockedCount * 100 * achView.overallProgress[2]

\* six of the fourteen unlocked: 300/7 per cent
C14_Witness ==
    /\ AchievementsShown
    /\ achView.unlockedCount = 6
    /\ achView.totalAchievements = 14
    /\ achView.overallProgress = <<300, 7>>

UserIds == {usersTable[k].id : k \in 1..Len(usersTable)}

StoredContentIds == {contentTable[k].id : k \in 1..Len(contentTable)}

\* the update statement of an invocation that found a stored record runs
UpdateStep(slot) ==
    /\ calls[slot].pc = "write"
    /\ calls[slot].existingProgress > 0
    /\ calls'[slot].pc = "idle"

\* C17: an update of a stored (user, content) record changes, in the rows of
\* that pair, exactly the fields the input carries and sets last_accessed
\* to the server time; every other field and every other row stay as stored
C17_UpdateOnlyProvidedFields ==
    [][\A slot \in Slots :
          UpdateStep(slot) =>
              LET input == calls[slot].input
              IN /\ Len(userProgressTable') = Len(userProgressTable)
                 /\ \A i \in 1..Len(userProgressTable) :
                      LET old == userProgressTable[i]
                          new == userProgressTable'[i]
                      IN IF old.user_id = input.user_id /\ old.content_id = input.content_id
                         THEN /\ new.id = old.id
                              /\ new.user_id = old.user_id
                              /\ new.content_id = old.content_id
                              /\ new.created_at = old.created_at
                              /\ new.last_accessed = clock
                              /\ new.last_accessed >= old.last_accessed
                              /\ new.status =
                                    IF input.status = <<>> THEN old.status
                                    ELSE input.status[1]
                              /\ new.completion_percentage =
                                    IF input.completion_percentage = <<>>
                                    THEN old.completion_percentage
                                    ELSE input.completion_percentage[1]
                              /\ new.time_spent_seconds =
                                    IF input.time_spent_seconds = <<>>
                                    THEN old.time_spent_seconds
                                    ELSE input.time_spent_seconds[1]
                         ELSE new = old]_vars

\* a record inserted as completed was updated later with a percentage only:
\* it is still completed, with the new percentage and a newer last_accessed
C17_Witness ==
    /\ Len(userProgressTable) = 1
    /\ userProgressTable[1].status = "completed"
    /\ userProgressTable[1].completion_percentage = 50
    /\ userProgressTable[1].time_spent_seconds = 0
    /\ userProgressTable[1].last_accessed > userProgressTable[1].created_at
    /\ \E slot \in Slots : calls[slot].outcome = "ok"

\* C18: an invocation goes past a check only when the user, then the
\* content, it names is stored; otherwise it ends with the error of that
\* check.  user_progress changes only in the write of an invocation whose
\* user and content are stored, so every row names a stored user and content
C18_MissingUserOrContent ==
    /\ [](\A i \in 1..Len(userProgressTable) :
            /\ userProgressTable[i].user_id \in UserIds
            /\ userProgressTable[i].content_id \in StoredContentIds)
    /\ [][/\ \A slot \in Slots :
              /\ (calls[slot].pc = "idle" /\ clock' # clock /\ calls'[slot].pc # "idle") =>
                    calls'[slot].input.user_id \in UserIds
              /\ (calls[slot].pc = "idle" /\ calls'[slot] # calls[slot]
                      /\ calls'[slot].pc = "idle") =>
                    calls'[slot].outcome = "User does not exist"
              /\ (calls[slot].pc = "selectContent" /\ calls'[slot] # calls[slot]) =>
                    IF calls[slot].input.content_id \in StoredContentIds
                    THEN calls'[slot].pc = "selectExisting"
                    ELSE /\ calls'[slot].pc = "idle"
                         /\ calls'[slot].outcome = "Content does not exist"
              /\ (calls'[slot] # calls[slot] /\ calls'[slot].outcome \in
                      {"User does not exist", "Content does not exist"}) =>
                    userProgressTable' = userProgressTable
          /\ userProgressTable' # userProgressTable =>
                \E slot \in Slots :
                    /\ calls[slot].pc = "write"
                    /\ calls[slot].input.user_id \in UserIds
                    /\ calls[slot].input.content_id \in StoredContentIds]_vars

\* one invocation ended on the missing user, another on the missing content,
\* next to a stored record
C18_Witness ==
    /\ \E slot \in Slots : calls[slot].outcome = "User does not exist"
    /\ \E slot \in Slots : calls[slot].outcome = "Content does not exist"
    /\ Len(userProgressTable) = 1

\* the first n rows of the table after the step are the table before it
KeepsRows(before, after) ==
    /\ Len(after) = Len(before) + 1
    /\ \A i \in 1..Len(before) : after[i] = before[i]
    /\ \A i \in 1..Len(before) : after[Len(after)].id # before[i].id

\* C16: a successful createQuizAttempt or createReadingSession appends one
\* record with a fresh id to its table and leaves every stored attempt and
\* session as it was; a new session is stored with ended_at null
C16_AppendOnly ==
    [][/\ \A raw \in RawQuizAttemptInputs :
            createQuizAttemptProcedure(raw) =>
                /\ KeepsRows(quizAttemptsTable, quizAttemptsTable')
                /\ readingSessionsTable' = readingSessionsTable
                /\ quizAttemptsTable'[Len(quizAttemptsTable')].user_id = raw.user_id
                /\ quizAttemptsTable'[Len(quizAttemptsTable')].quiz_id = raw.quiz_id
                /\ quizAttemptsTable'[Len(quizAttemptsTable')].score = raw.score
       /\ \A raw \in RawReadingSessionInputs :
            createReadingSessionProcedure(raw) =>
                /\ KeepsRows(readingSessionsTable, readingSessionsTable')
                /\ quizAttemptsTable' = quizAttemptsTable
                /\ readingSessionsTable'[Len(readingSessionsTable')].ended_at = <<>>
                /\ readingSessionsTable'[Len(readingSessionsTable')].user_id = raw.user_id
                /\ readingSessionsTable'[Len(readingSessionsTable')].content_id = raw.content_id
       /\ Len(quizAttemptsTable') >= Len(quizAttemptsTable)
       /\ Len(readingSessionsTable') >= Len(readingSessionsTable)]_vars

\* two attempts of one user at one quiz are both stored, next to a session
\* with ended_at null
C16_Witness ==
    /\ Len(quizAttemptsTable) = 2
    /\ quizAttemptsTable[1].user_id = quizAttemptsTable[2].user_id
    /\ quizAttemptsTable[1].quiz_id = quizAttemptsTable[2].quiz_id
    /\ quizAttemptsTable[1].id # quizAttemptsTable[2].id
    /\ quizAttemptsTable[1].score # quizAttemptsTable[2].score
    /\ Len(readingSessionsTable) = 1
    /\ readingSessionsTable[1].ended_at = <<>>

\* C20: every stored record lies in its documented range: a session's
\* words_read and session_duration_seconds are >= 0 and its reading_accuracy
\* is null or in 0..100, a progress row's completion_percentage is in 0..100
\* and its time_spent_seconds >= 0, an attempt's score is in 0..100
C20_StoredRanges ==
    /\ \A i \in 1..Len(readingSessionsTable) :
          /\ readingSessionsTable[i].words_read >= 0
          /\ readingSessionsTable[i].session_duration_seconds >= 0
          /\ \/ readingSessionsTable[i].reading_accuracy = <<>>
             \/ /\ readingSessionsTable[i].reading_accuracy[1] >= 0
                /\ readingSessionsTable[i].reading_accuracy[1] <= 100
    /\ \A i \in 1..Len(userProgressTable) :
          /\ userProgressTable[i].completion_percentage >= 0
          /\ userProgressTable[i].completion_percentage <= 100
          /\ userProgressTable[i].time_spent_seconds >= 0
    /\ \A i \in 1..Len(quizAttemptsTable) :
          /\ quizAttemptsTable[i].score[1] >= 0
          /\ quizAttemptsTable[i].score[1] <= 100 * quizAttemptsTable[i].score[2]

----------------------------------------------------------------------------
(* The per-user queries *)

\* C21: getReadingSessions returns each session's reading_accuracy equal to
\* the value createReadingSession stored: the same number for a stored
\* number, 0 included, and null exactly for a stored null.
C21_AccuracyRoundTrip ==
    response.procedure = "getReadingSessions" =>
        \A i \in 1..Len(response.rows) : \A j \in 1..Len(readingSessionsTable) :
            readingSessionsTable[j].id = response.rows[i].id =>
                response.rows[i].reading_accuracy =
                    readingSessionsTable[j].reading_accuracy

\* positions of the rows of a table a query for the answered input selects
ProgressPositions ==
    {j \in 1..Len(userProgressTable) :
        /\ userProgressTable[j].user_id = response.input.user_id
        /\ \/ response.input.content_id = Undefined
           \/ /\ response.input.content_id # Undefined
              /\ userProgressTable[j].content_id = response.input.content_id[1]}

AttemptPositions ==
    {j \in 1..Len(quizAttemptsTable) : quizAttemptsTable[j].user_id = response.input}

SessionPositions ==
    {j \in 1..Len(readingSessionsTable) : readingSessionsTable[j].user_id = response.input}

\* the answered rows are the rows of table at positions, each once
ExactlyRows(table, positions) ==
    /\ Len(response.rows) = Cardinality(positions)
    /\ \A j \in positions : \E i \in 1..Len(response.rows) :
          response.rows[i].id = table[j].id
    /\ \A i \in 1..Len(response.rows) : \E j \in positions :
          response.rows[i].id = table[j].id

\* C22: getUserProgress, getQuizAttempts and getReadingSessions for a user
\* return exactly the rows of that user (getUserProgress of the content, if
\* one is given), never a row of another user, and nothing for a user
\* without rows.
C22_PerUserIsolation ==
    /\ response.procedure = "getUserProgress" =>
          /\ ExactlyRows(userProgressTable, ProgressPositions)
          /\ \A i \in 1..Len(response.rows) :
                response.rows[i].user_id = response.input.user_id
    /\ response.procedure = "getQuizAttempts" =>
          /\ ExactlyRows(quizAttemptsTable, AttemptPositions)
          /\ \A i \in 1..Len(response.rows) : response.rows[i].user_id = response.input
    /\ response.procedure = "getReadingSessions" =>
          /\ ExactlyRows(readingSessionsTable, SessionPositions)
          /\ \A i \in 1..Len(response.rows) : response.rows[i].user_id = response.input

\* reader 1 asks for the progress over a table that holds a row of reader 1
\* and a row of reader 2
C22_Witness ==
    /\ response.procedure = "getUserProgress"
    /\ response.input.user_id = 1
    /\ response.input.content_id = Undefined
    /\ Len(response.rows) = 1
    /\ \E j \in 1..Len(userProgressTable) : userProgressTable[j].user_id = 2

\* C23: getQuizAttempts answers in descending completed_at and
\* getReadingSessions in descending started_at: of two returned rows the
\* more recent comes first, whatever the insertion order.
C23_MostRecentFirst ==
    /\ response.procedure = "getQuizAttempts" =>
          \A i, k \in 1..Len(response.rows) :
              i < k => response.rows[i].completed_at >= response.rows[k].completed_at
    /\ response.procedure = "getReadingSessions" =>
          \A i, k \in 1..Len(response.rows) :
              i < k => response.rows[i].started_at >= response.rows[k].started_at

\* two sessions of a reader inserted oldest first are answered newest first
C23_Witness ==
    /\ response.procedure = "getReadingSessions"
    /\ Len(response.rows) = 2
    /\ Len(readingSessionsTable) = 2
    /\ readingSessionsTable[1].started_at < readingSessionsTable[2].started_at
    /\ response.rows[1].id = 2

----------------------------------------------------------------------------
(* updateUser *)

\* a step of updateUser: the answer is its own and no user is added
UpdateUserStep ==
    /\ clock' = clock + 1
    /\ Len(usersTable') = Len(usersTable)
    /\ response'.procedure = "updateUser"

\* C24: updateUser writes only the fields its input holds (name, age,
\* level) of the user with the given id, keeps every omitted field, id and
\* created_at, advances updated_at even when no field is given, and for an
\* id without a user fails with 'User with id N not found' and changes no
\* user.
C24_UpdateUserFrame ==
    [][UpdateUserStep =>
        LET input == response'.input
            found == {i \in 1..Len(usersTable) : usersTable[i].id = input.id}
        IN  /\ \A i \in 1..Len(usersTable) \ found : usersTable'[i] = usersTable[i]
            /\ \A i \in found :
                  /\ usersTable'[i].id = usersTable[i].id
                  /\ usersTable'[i].created_at = usersTable[i].created_at
                  /\ usersTable'[i].updated_at > usersTable[i].updated_at
                  /\ usersTable'[i].name =
                        IF input.name = Undefined THEN usersTable[i].name
                        ELSE input.name[1]
                  /\ usersTable'[i].age =
                        IF input.age = Undefined THEN usersTable[i].age
                        ELSE input.age[1]
                  /\ usersTable'[i].level =
                        IF input.level = Undefined THEN usersTable[i].level
                        ELSE input.level[1]
                  /\ response'.rows = <<usersTable'[i]>>
                  /\ response'.error = <<>>
            /\ found = {} =>
                  /\ usersTable' = usersTable
                  /\ response'.rows = <<>>
                  /\ response'.error = <<"User with id ", input.id, " not found">>
    ]_vars

\* a user created as Ann, 12, advanced was given level intermediate only:
\* name and age are as created, updated_at is later than created_at
C24_Witness ==
    /\ response.procedure = "updateUser"
    /\ response.error = <<>>
    /\ response.input.name = Undefined
    /\ response.input.age = Undefined
    /\ response.input.level = Some("intermediate")
    /\ \E i \in 1..Len(usersTable) :
          /\ usersTable[i].id = response.input.id
          /\ usersTable[i].name = "Ann"
          /\ usersTable[i].age = 12
          /\ usersTable[i].level = "intermediate"
          /\ usersTable[i].updated_at > usersTable[i].created_at

----------------------------------------------------------------------------
(* The reading journey card *)

\* C25: after any content, progress updates and level changes the
\* dashboard's completed count is at most the count of content at the
\* user's level, so the overall progress is within 0..100 and the number of
\* stories to go is not negative.
C25_CompletedWithinLevel ==
    dashView.kind = "stats" =>
        /\ dashView.completedContent <= dashView.totalContent
        /\ RatGE(dashView.overallProgress, 0)
        /\ RatLE(dashView.overallProgress, 100)
        /\ dashView.storiesToGo # Null => dashView.storiesToGo[1] >= 0

----------------------------------------------------------------------------
(* Switching the reader *)

\* C26: once no getUserProgress fetch is in flight (and none has failed),
\* the App's userProgress holds the progress rows of the reader that is
\* selected now, never those of a reader selected before.
C26_ProgressOfCurrentReader ==
    (app.fetches = <<>> /\ app.currentUser # 0 /\ ~app.progressError) =>
        /\ \A i \in 1..Len(app.userProgress) :
              app.userProgress[i].user_id = app.currentUser
        /\ app.userProgress =
              getUserProgress(userProgressTable,
                              [user_id |-> app.currentUser, content_id |-> Undefined])

----------------------------------------------------------------------------
(* The reading player *)

\* positions of a handleReadingComplete call after its session was created
AfterSession == {"sessionCreated", "updateUserProgress", "done", "progressFailed"}

\* the interval callback has run past the last word in this step
RanToEnd == Len(reader'.completions) = Len(reader.completions) + 1

\* every session belongs to a completion past its first call and holds
\* the whole text; a progress request exists only for such a completion
CompletionsAccounted ==
    /\ Len(readingSessionsTable) =
          Cardinality({k \in 1..Len(reader.completions) :
                          reader.completions[k] \in AfterSession})
    /\ \A i \in 1..Len(readingSessionsTable) :
          /\ readingSessionsTable[i].words_read = reader.totalWords
          /\ readingSessionsTable[i].user_id = 1
          /\ readingSessionsTable[i].content_id = 1
    /\ \A k \in Slots :
          (calls[k].pc # "idle" \/ calls[k].outcome # "none") =>
              /\ k <= Len(reader.completions)
              /\ reader.completions[k] \in AfterSession \ {"sessionCreated"}
    /\ \A i \in 1..Len(userProgressTable) :
          /\ userProgressTable[i].status = "completed"
          /\ userProgressTable[i].completion_percentage = 100
          /\ userProgressTable[i].user_id = 1
          /\ userProgressTable[i].content_id = 1
    /\ Len(userProgressTable) <= Len(readingSessionsTable)

\* a run to the end stops the reading and starts one completion without
\* touching the store; the progress is written by a completion whose
\* session exists
CompletionInOrder ==
    /\ RanToEnd =>
          /\ reader.isReading
          /\ ~reader'.isReading
          /\ reader.currentWordIndex + 1 >= reader.totalWords
          /\ reader'.completions = Append(reader.completions, "createReadingSession")
          /\ UNCHANGED serverVars
    /\ (userProgressTable' # userProgressTable) =>
          /\ readingSessionsTable' = readingSessionsTable
          /\ \E k \in 1..Len(reader.completions) :
                /\ reader.completions[k] \in {"updateUserProgress", "progressFailed"}
                /\ calls[k].pc = "write"

\* C27: when auto-reading passes the last word the reading stops and one
\* completion starts; each completion creates one reading session with
\* words_read = totalWords first, asks for the progress (completed, 100)
\* only after that call has succeeded, and asks for no progress when
\* creating the session has failed.
C27_SessionThenProgress == []CompletionsAccounted /\ [][CompletionInOrder]_vars

\* a reading ran to its end, its session was stored, then its progress
C27_Witness ==
    /\ Len(reader.completions) = 1
    /\ reader.completions[1] = "done"
    /\ Len(readingSessionsTable) = 1
    /\ readingSessionsTable[1].words_read = reader.totalWords
    /\ Len(userProgressTable) = 1
    /\ userProgressTable[1].status = "completed"
    /\ userProgressTable[1].created_at > readingSessionsTable[1].started_at

\* C28: in the reading player 0 <= currentWordIndex < totalWords and
\* 0 <= wordsRead <= totalWords always hold, and when auto-reading has run
\* to the end of the text wordsRead equals totalWords, so that the
\* completion overlay (wordsRead >= totalWords) is displayed.
C28_CompletedReadingShowsOverlay ==
    /\ [](reader.currentWordIndex >= 0 /\ reader.currentWordIndex < reader.totalWords)
    /\ [](reader.wordsRead >= 0 /\ reader.wordsRead <= reader.totalWords)
    /\ [][RanToEnd => reader'.wordsRead >= reader'.totalWords]_vars

----------------------------------------------------------------------------
(* The quiz *)

\* x and y are the same letter, in any case
SameLetter(x, y) ==
    \/ x = y
    \/ \E k \in 1..Len(UpperCase) : {x, y} = {UpperCase[k], LowerCase[k]}

\* a is c between blanks, letter by letter in any case
EqualsIgnoringCaseAndPadding(a, c) ==
    \E l \in 0..Len(a) :
        /\ l + Len(c) <= Len(a)
        /\ \A i \in 1..Len(a) :
              IF i <= l \/ i > l + Len(c)
              THEN a[i] = " "
              ELSE SameLetter(a[i], c[i - l])

\* the questions the reader has answered correctly
CorrectlyAnswered ==
    {q \in 1..Len(sampleQuestions) :
        /\ quiz.answers[sampleQuestions[q].id] # Undefined
        /\ EqualsIgnoringCaseAndPadding(quiz.answers[sampleQuestions[q].id][1],
                                         sampleQuestions[q].correct_answer)}

\* at most one attempt is sent and stored, with the count of the correctly
\* answered questions and its rounded percentage
AttemptScored ==
    /\ Len(quiz.sent) <= 1
    /\ Len(quizAttemptsTable) <= Len(quiz.sent)
    /\ \A i \in 1..Len(quiz.sent) :
          LET attempt == quiz.sent[i]
              total == attempt.total_questions
              correct == attempt.correct_answers
              score == attempt.score[1]
          IN  /\ total = Len(sampleQuestions)
              /\ correct = Cardinality(CorrectlyAnswered)
              /\ 0 <= correct /\ correct <= total
              /\ attempt.score[2] = 1
              /\ 2 * score * total <= 200 * correct + total
              /\ 200 * correct + total < 2 * score * total + 2 * total
              /\ score = 100 <=> correct = total
    /\ \A i \in 1..Len(quizAttemptsTable) :
          /\ quizAttemptsTable[i].score = quiz.sent[1].score
          /\ quizAttemptsTable[i].correct_answers = quiz.sent[1].correct_answers
          /\ quizAttemptsTable[i].total_questions = quiz.sent[1].total_questions

\* an attempt is sent from the last question, answered, and ends the quiz
SentFromLastQuestion ==
    (quiz'.sent # quiz.sent) =>
        /\ quiz.currentQuestionIndex = Len(sampleQuestions) - 1
        /\ quiz.answers[sampleQuestions[Len(sampleQuestions)].id] # Undefined
        /\ quiz.answers[sampleQuestions[Len(sampleQuestions)].id][1] # <<>>
        /\ ~quiz.showResults
        /\ quiz'.showResults
        /\ quiz'.answers = quiz.answers

\* C29: in a quiz run at most one attempt is submitted, only from the last
\* question with an answer given, with 0 <= correct_answers <=
\* total_questions and score = round(100 * correct_answers /
\* total_questions), an answer being correct iff it equals the correct
\* answer ignoring case and surrounding whitespace; so the score is 100 iff
\* every question is answered correctly.
C29_OneScoredAttempt == []AttemptScored /\ [][SentFromLastQuestion]_vars

\* the blank was filled with " Happy ": three of three, score 100, stored
C29_Witness ==
    /\ Len(quiz.sent) = 1
    /\ quiz.answers[3] = Some(<<" ", "H", "a", "p", "p", "y", " ">>)
    /\ quiz.sent[1].correct_answers = 3
    /\ quiz.sent[1].score = Rat(100, 1)
    /\ Len(quizAttemptsTable) = 1

====
